---- MODULE Spec2Model ----
(***************************************************************************)
(* Onboarding dialogue engine of the AI diet coach (agent.py, database.py, *)
(* deepseek.py).  One action per branch of process_incoming_message; the   *)
(* language model and the Supabase store are the environment: every call   *)
(* to them either succeeds or fails, and the language model's answer is    *)
(* drawn from a small set of shapes.                                       *)
(*                                                                         *)
(* Representation.                                                         *)
(*  - A profile row / Python dict is a function whose DOMAIN is the set of *)
(*    keys holding a value; a NULL column is an absent key (agent.py       *)
(*    treats "key missing" and "value is None" alike, lines 494 and 549).  *)
(*  - A text the user typed or a field value of type text is a sequence of *)
(*    one-character strings, so that strip(), lower() and len() are        *)
(*    computed.  A generated message is a tagged tuple (Llm, Lit, Cat).    *)
(*  - Numbers are integers; a confidence is in ten-thousandths (0.7 is     *)
(*    7000).  Timestamps (updated_at, plan_created_at, timestamp) are not  *)
(*    modelled: no code under agent.py reads them.                         *)
(*  - conversation_messages[p] is the sub-sequence of the table with       *)
(*    phone_number = p in insertion order; every query of the code filters *)
(*    on phone_number.                                                     *)
(***************************************************************************)
EXTENDS Integers, Sequences, FiniteSets, TLC

VARIABLES
  user_profiles,          \* table user_profiles: a set of rows
  conversation_messages,  \* table conversation_messages, per phone_number
  WELCOME_MESSAGE,        \* module-level global of agent.py
  reply,                  \* what the last call of process_incoming_message returned
  last,                   \* the path the last call took, the calls it made (observer)
  plan_calls,             \* calls of create_diet_plan in this run, per phone (observer)
  last_analyzer_response, \* what extract_field_value got from the model in the last call
  turns,                  \* calls of process_incoming_message in this run
  faults,                 \* collaborator / store failures in this run
  tasks,                  \* the calls in flight: where each one waits, its locals
  sending,                \* the call of send_message_with_retry: its position, its locals
  current_state,          \* FlowManager: the state of the conversation, the last call
  onboarding,             \* services DietAgent: the profile, the last call of handle_onboarding
  webhook                 \* WebhookService: the handler that runs, what was sent and stored

vars == <<user_profiles, conversation_messages, WELCOME_MESSAGE, reply, last,
          plan_calls, last_analyzer_response, turns, faults, tasks,
          sending, current_state, onboarding, webhook>>

(***************************************************************************)
(* Bounds                                                                  *)
(***************************************************************************)
MaxTurns == 2         \* messages handled in one run of the process
MaxFaults == 1        \* failing collaborator / store calls in one run
MaxRetries == 3       \* max_retries of send_message_with_retry

Phones == {"p1", "p2"}

(***************************************************************************)
(* Values                                                                  *)
(***************************************************************************)
None == <<>>

Lit(s) == <<"lit", s>>
Llm(kind, subject, lang) == <<"llm", kind, subject, lang>>
Cat(a, b) == <<"cat", a, b>>

IsText(t) == /\ t # None
             /\ Len(t) \in {2, 3, 4}
             /\ t[1] \in {"lit", "llm", "cat"}

DEFAULT_LANGUAGE == <<"e", "n">>

und == <<"u", "n", "d">>

SUPPORTED_LANGUAGES == {<<"e", "n">>, <<"f", "r">>, <<"e", "s">>, <<"a", "r">>,
                        <<"h", "i">>, <<"z", "h">>, <<"j", "a">>, <<"k", "o">>}

\* text constants of PROFILE_FIELDS, as character sequences
homme == <<"h", "o", "m", "m", "e">>
femme == <<"f", "e", "m", "m", "e">>
sedentary == <<"s", "e", "d", "e", "n", "t", "a", "r", "y">>
light == <<"l", "i", "g", "h", "t">>
moderate == <<"m", "o", "d", "e", "r", "a", "t", "e">>
active == <<"a", "c", "t", "i", "v", "e">>
very_active == <<"v", "e", "r", "y", "_", "a", "c", "t", "i", "v", "e">>

PROFILE_FIELDS ==
  [language |-> [required |-> TRUE, type |-> "text",
                 options |-> SUPPORTED_LANGUAGES],
   name |-> [required |-> TRUE, type |-> "text", min_length |-> 2, max_length |-> 50],
   age |-> [required |-> TRUE, type |-> "number", min_value |-> 18, max_value |-> 120],
   gender |-> [required |-> TRUE, type |-> "text", options |-> {homme, femme}],
   height |-> [required |-> TRUE, type |-> "number", min_value |-> 100, max_value |-> 250],
   start_weight |-> [required |-> TRUE, type |-> "number", min_value |-> 30, max_value |-> 300],
   target_weight |-> [required |-> TRUE, type |-> "number", min_value |-> 30, max_value |-> 300],
   activity_level |-> [required |-> TRUE, type |-> "text",
                       options |-> {sedentary, light, moderate, active, very_active}],
   dietary_restrictions |-> [required |-> FALSE, type |-> "text"],
   health_conditions |-> [required |-> FALSE, type |-> "text"]]

\* iteration order of PROFILE_FIELDS.items()
PROFILE_FIELDS_items ==
  <<"language", "name", "age", "gender", "height", "start_weight", "target_weight",
    "activity_level", "dietary_restrictions", "health_conditions">>

\* REQUIRED_ORDER with gender and height exchanged
REQUIRED_ORDER_swapped ==
  <<"language", "name", "age", "height", "gender", "start_weight", "target_weight",
    "activity_level">>

REQUIRED_ORDER ==
  <<"language", "name", "age", "gender", "height", "start_weight", "target_weight",
    "activity_level">>

Range(s) == {s[i] : i \in DOMAIN s}

(***************************************************************************)
(* str.strip(), str.lower(), str(), float()                                *)
(***************************************************************************)
UpperCase == <<"A", "B", "C", "D", "E", "F", "G", "H", "I", "J", "K", "L", "M",
               "N", "O", "P", "Q", "R", "S", "T", "U", "V", "W", "X", "Y", "Z">>
LowerCase == <<"a", "b", "c", "d", "e", "f", "g", "h", "i", "j", "k", "l", "m",
               "n", "o", "p", "q", "r", "s", "t", "u", "v", "w", "x", "y", "z">>
DigitChars == <<"0", "1", "2", "3", "4", "5", "6", "7", "8", "9">>

lower_char(c) ==
  IF \E i \in DOMAIN UpperCase : UpperCase[i] = c
    THEN LowerCase[CHOOSE i \in DOMAIN UpperCase : UpperCase[i] = c]
    ELSE c

lower(s) == [i \in DOMAIN s |-> lower_char(s[i])]

RECURSIVE lstrip(_)
lstrip(s) == IF s # <<>> /\ Head(s) = " " THEN lstrip(Tail(s)) ELSE s

RECURSIVE rstrip(_)
rstrip(s) == IF s # <<>> /\ s[Len(s)] = " " THEN rstrip(SubSeq(s, 1, Len(s) - 1)) ELSE s

strip(s) == rstrip(lstrip(s))

RECURSIVE digits(_)
digits(n) == IF n < 10 THEN <<DigitChars[n + 1]>>
             ELSE digits(n \div 10) \o <<DigitChars[(n % 10) + 1]>>

\* a JSON value as json.loads returns it
JNum(n) == [t |-> "num", v |-> n]
JStr(s) == [t |-> "str", v |-> s]
JBool(b) == [t |-> "bool", v |-> b]
JNull == [t |-> "null"]

\* str(x) of a JSON value
str(x) ==
  CASE x.t = "str" -> x.v
    [] x.t = "num" -> IF x.v < 0 THEN <<"-">> \o digits(0 - x.v) ELSE digits(x.v)
    [] x.t = "bool" -> IF x.v THEN <<"T", "r", "u", "e">> ELSE <<"F", "a", "l", "s", "e">>
    [] x.t = "null" -> <<"N", "o", "n", "e">>

IsDigit(c) == \E i \in DOMAIN DigitChars : DigitChars[i] = c
DigitValue(c) == (CHOOSE i \in DOMAIN DigitChars : DigitChars[i] = c) - 1

RECURSIVE parse_digits(_)
parse_digits(s) == IF s = <<>> THEN 0
                   ELSE 10 * parse_digits(SubSeq(s, 1, Len(s) - 1)) + DigitValue(s[Len(s)])

\* float(x): [ok |-> FALSE] stands for ValueError / TypeError.  Of the strings
\* float() accepts, the unsigned decimal integers are modelled.
float(x) ==
  CASE x.t = "num" -> [ok |-> TRUE, v |-> x.v]
    [] x.t = "bool" -> [ok |-> TRUE, v |-> IF x.v THEN 1 ELSE 0]
    [] x.t = "str" ->
         LET s == strip(x.v)
         IN IF s # <<>> /\ \A i \in DOMAIN s : IsDigit(s[i])
              THEN [ok |-> TRUE, v |-> parse_digits(s)]
              ELSE [ok |-> FALSE]
    [] x.t = "null" -> [ok |-> FALSE]

(***************************************************************************)
(* deepseek.py: the language-model collaborator                            *)
(***************************************************************************)
Sorry == Lit("I'm sorry, something went wrong.")

\* chat_completion never raises: a failed call returns the fixed sentence.
chat_completion(ok, answer) == [raised |-> FALSE, text |-> IF ok THEN answer ELSE Sorry]

\* what the model may answer to the language prompt
LanguageReplies == {<<"F", "R", " ">>, <<"e", "n", "g", "l", "i", "s", "h">>, <<>>}

\* detect_language that reports a failed call as an undetermined language
detect_language_und(ok, answer) ==
  IF ok THEN SubSeq(lower(strip(answer)), 1, IF Len(lower(strip(answer))) < 2
                                                THEN Len(lower(strip(answer))) ELSE 2)
        ELSE und

\* detect_language that returns the reply of the model as it came
detect_language_raw(ok, answer) == IF ok THEN answer ELSE <<"e", "n">>

detect_language(ok, answer) ==
  IF ok THEN SubSeq(lower(strip(answer)), 1, IF Len(lower(strip(answer))) < 2
                                                THEN Len(lower(strip(answer))) ELSE 2)
        ELSE <<"e", "n">>

(***************************************************************************)
(* agent.py: message generators                                            *)
(***************************************************************************)
generate_welcome_message(ok) ==
  LET r == chat_completion(ok, Llm("welcome", "languages", DEFAULT_LANGUAGE))
  IN IF r.raised
       THEN Lit("Welcome! Please reply in your preferred language, and I'll continue in that language.")
       ELSE r.text

get_coach_intro(lang_code, ok) ==
  LET r == chat_completion(ok, Llm("intro", "name", lang_code))
  IN IF r.raised THEN Lit("Hello! I'm Eric, ... what you'd like me to call you?")
                 ELSE r.text

get_fallback_question(field_name, lang_code, ok) ==
  LET r == chat_completion(ok, Llm("fallback_question", field_name, lang_code))
  IN IF r.raised THEN <<field_name, Cat(Lit("Please provide your"), Lit(field_name))>>
                 ELSE <<field_name, r.text>>

generate_optional_question(field_name, lang_code, ok) ==
  LET r == chat_completion(ok, Llm("optional_question", field_name, lang_code))
  IN IF r.raised THEN Cat(Lit("Would you like to share any"), Lit(field_name))
                 ELSE r.text

\* the test of get_next_question that takes every field as unset
IsSet_never(user_profile, field_name) == FALSE

IsSet(user_profile, field_name) == field_name \in DOMAIN user_profile

\* the order of get_next_question without its second loop
QuestionOrder_required ==
  SelectSeq(REQUIRED_ORDER, LAMBDA f : PROFILE_FIELDS[f].required /\ f # "language")

\* the fields get_next_question may return, in the order its two loops visit them
QuestionOrder ==
  SelectSeq(REQUIRED_ORDER, LAMBDA f : PROFILE_FIELDS[f].required /\ f # "language")
  \o SelectSeq(PROFILE_FIELDS_items,
               LAMBDA f : ~PROFILE_FIELDS[f].required /\ f \notin Range(REQUIRED_ORDER))

\* the fields of the order, stored or not
Missing_all(user_profile) == QuestionOrder

\* the second loop of get_next_question that is done once one optional field
\* is stored
Missing_oneoptional(user_profile) ==
  SelectSeq(QuestionOrder,
            LAMBDA f : /\ ~IsSet(user_profile, f)
                       /\ \/ PROFILE_FIELDS[f].required
                          \/ \A g \in Range(QuestionOrder) :
                               PROFILE_FIELDS[g].required \/ ~IsSet(user_profile, g))

Missing(user_profile) ==
  SelectSeq(QuestionOrder, LAMBDA f : ~IsSet(user_profile, f))

\* get_next_question that ends the collection with another sentence
get_next_question_done(user_profile, lang_code, ok) ==
  LET missing == Missing(user_profile)
  IN IF missing = <<>>
       THEN <<"complete", Lit("Your profile is complete")>>
       ELSE LET field_name == Head(missing)
            IN IF PROFILE_FIELDS[field_name].required
                 THEN LET r == chat_completion(ok, Llm("question", field_name, lang_code))
                      IN IF r.raised THEN get_fallback_question(field_name, lang_code, ok)
                                     ELSE <<field_name, r.text>>
                 ELSE <<field_name, generate_optional_question(field_name, lang_code, ok)>>

get_next_question(user_profile, lang_code, ok) ==
  LET missing == Missing(user_profile)
  IN IF missing = <<>>
       THEN <<"complete", Lit("Profile complete")>>
       ELSE LET field_name == Head(missing)
            IN IF PROFILE_FIELDS[field_name].required
                 THEN LET r == chat_completion(ok, Llm("question", field_name, lang_code))
                      IN IF r.raised THEN get_fallback_question(field_name, lang_code, ok)
                                     ELSE <<field_name, r.text>>
                 ELSE <<field_name, generate_optional_question(field_name, lang_code, ok)>>

\* get_error_message that returns nothing
get_error_message_noreturn(error_type, lang_code, ok) == None

get_error_message(error_type, lang_code, ok) ==
  LET r == chat_completion(ok, Llm("error", error_type, lang_code))
  IN IF r.raised THEN Lit("I encountered an error. Please try again.")
                 ELSE r.text

get_clarification_message(field_name, lang_code, ok) ==
  LET r == chat_completion(ok, Llm("clarification", field_name, lang_code))
  IN IF r.raised THEN Cat(Lit("Could you please clarify your"), Lit(field_name))
                 ELSE r.text

create_diet_plan(user_profile, ok) ==
  LET r == chat_completion(ok, Llm("plan", "profile", user_profile["language"]))
  IN IF r.raised THEN Lit("Error creating plan. Please try again later.")
                 ELSE r.text

(***************************************************************************)
(* agent.py: extract_field_value                                           *)
(***************************************************************************)
\* a threshold that 0.7 itself does not reach
CONFIDENCE_THRESHOLD_above == 7000 + 1

CONFIDENCE_THRESHOLD == 7000

\* a confidence that is never below the threshold
Confidence_full(c) == 10000

\* a JSON number or bool as a confidence: True is 1, False is 0
Confidence(c) == IF c.t = "bool" THEN (IF c.v THEN 10000 ELSE 0) ELSE c.v

\* An answer of the analyzer: text without braces, braces around something
\* json.loads rejects, or a JSON object.
NoJson == [braces |-> FALSE]
BadJson == [braces |-> TRUE, parses |-> FALSE]
Json(value, confidence) ==
  [braces |-> TRUE, parses |-> TRUE,
   object |-> [value |-> value, confidence |-> confidence,
               normalized |-> JBool(TRUE), original_format |-> JStr(<<>>)]]
JsonWithout(key) ==
  [braces |-> TRUE, parses |-> TRUE,
   object |-> [k \in {"value", "confidence", "normalized", "original_format"} \ {key}
                 |-> JNull]]

\* "" when the response holds no braces, else the text between them
clean_json_response(response) == IF response.braces THEN response ELSE None

\* extract_number without the check of min_value
extract_number_nomin(field_name, field_info, result) ==
  LET value == float(result.value)
  IN IF ~value.ok THEN None
     ELSE IF "max_value" \in DOMAIN field_info /\ value.v > field_info.max_value THEN None
     ELSE (field_name :> value.v)

\* extract_number that turns down the bounds themselves
extract_number_exclusive(field_name, field_info, result) ==
  LET value == float(result.value)
  IN IF ~value.ok THEN None
     ELSE IF "min_value" \in DOMAIN field_info /\ value.v <= field_info.min_value THEN None
     ELSE IF "max_value" \in DOMAIN field_info /\ value.v >= field_info.max_value THEN None
     ELSE (field_name :> value.v)

\* lines 364-383: the branch for a field of type number
extract_number(field_name, field_info, result) ==
  LET value == float(result.value)
  IN IF ~value.ok THEN None                              \* ValueError, TypeError
     ELSE IF "min_value" \in DOMAIN field_info /\ value.v < field_info.min_value THEN None
     ELSE IF "max_value" \in DOMAIN field_info /\ value.v > field_info.max_value THEN None
     ELSE (field_name :> value.v)

\* extract_text without the checks of the length
extract_text_anylength(field_name, field_info, result) ==
  LET value == lower(strip(str(result.value)))
  IN IF value = <<>> THEN None
     ELSE IF "options" \in DOMAIN field_info /\ value \notin field_info.options THEN None
     ELSE (field_name :> value)

\* extract_text that checks the cleaned value and returns the value as it came
extract_text_raw(field_name, field_info, result) ==
  LET value == lower(strip(str(result.value)))
  IN IF value = <<>> THEN None
     ELSE IF "options" \in DOMAIN field_info /\ value \notin field_info.options THEN None
     ELSE IF "max_length" \in DOMAIN field_info /\ Len(value) > field_info.max_length THEN None
     ELSE IF "min_length" \in DOMAIN field_info /\ Len(value) < field_info.min_length THEN None
     ELSE (field_name :> str(result.value))

\* lines 385-412: the branch for a field of type text
extract_text(field_name, field_info, result) ==
  LET value == lower(strip(str(result.value)))
  IN IF value = <<>> THEN None
     ELSE IF "options" \in DOMAIN field_info /\ value \notin field_info.options THEN None
     ELSE IF "max_length" \in DOMAIN field_info /\ Len(value) > field_info.max_length THEN None
     ELSE IF "min_length" \in DOMAIN field_info /\ Len(value) < field_info.min_length THEN None
     ELSE (field_name :> value)

\* extract_field_value that takes a name outside PROFILE_FIELDS as a field
\* that any message answers
extract_field_value_anyfield(field_name, ok, answer) ==
  IF field_name \notin DOMAIN PROFILE_FIELDS
    THEN (field_name :> <<"y", "e", "s">>)
    ELSE
      LET field_info == PROFILE_FIELDS[field_name]
          analyzer_response == IF ok THEN answer ELSE NoJson
          clean_response == clean_json_response(analyzer_response)
      IN IF clean_response = None THEN None
         ELSE IF ~clean_response.parses THEN None        \* JSONDecodeError
         ELSE
           LET result == clean_response.object
           IN IF ~({"value", "confidence", "normalized", "original_format"}
                     \subseteq DOMAIN result) THEN None
              ELSE IF result.confidence.t \notin {"num", "bool"} THEN None  \* TypeError
              ELSE IF Confidence(result.confidence) < CONFIDENCE_THRESHOLD THEN None
              ELSE IF field_info.type = "number"
                THEN extract_number(field_name, field_info, result)
              ELSE IF field_info.type = "text"
                THEN extract_text(field_name, field_info, result)
              ELSE (field_name :> result.value)

extract_field_value(field_name, ok, answer) ==
  IF field_name \notin DOMAIN PROFILE_FIELDS
    THEN None                                            \* KeyError, line 440
    ELSE
      LET field_info == PROFILE_FIELDS[field_name]
          analyzer_response == IF ok THEN answer ELSE NoJson
          clean_response == clean_json_response(analyzer_response)
      IN IF clean_response = None THEN None
         ELSE IF ~clean_response.parses THEN None        \* JSONDecodeError
         ELSE
           LET result == clean_response.object
           IN IF ~({"value", "confidence", "normalized", "original_format"}
                     \subseteq DOMAIN result) THEN None
              ELSE IF result.confidence.t \notin {"num", "bool"} THEN None  \* TypeError
              ELSE IF Confidence(result.confidence) < CONFIDENCE_THRESHOLD THEN None
              ELSE IF field_info.type = "number"
                THEN extract_number(field_name, field_info, result)
              ELSE IF field_info.type = "text"
                THEN extract_text(field_name, field_info, result)
              ELSE (field_name :> result.value)

\* lines 344-361: the answer gets past the parsing, the required keys and the
\* confidence threshold
Usable(response) ==
  /\ response.braces /\ response.parses
  /\ {"value", "confidence", "normalized", "original_format"} \subseteq DOMAIN response.object
  /\ response.object.confidence.t \in {"num", "bool"}
  /\ Confidence(response.object.confidence) >= CONFIDENCE_THRESHOLD

\* lines 371-376 and 396-406: the constraint of field_info whose check turns the
\* typed value down, "none" when no such check does
Violation(field_name, response) ==
  IF field_name \notin DOMAIN PROFILE_FIELDS \/ ~Usable(response) THEN "none"
  ELSE LET field_info == PROFILE_FIELDS[field_name]
           result == response.object
       IN IF field_info.type = "number"
            THEN LET value == float(result.value)
                 IN IF ~value.ok THEN "none"
                    ELSE IF "min_value" \in DOMAIN field_info
                            /\ value.v < field_info.min_value THEN "min_value"
                    ELSE IF "max_value" \in DOMAIN field_info
                            /\ value.v > field_info.max_value THEN "max_value"
                    ELSE "none"
            ELSE LET value == lower(strip(str(result.value)))
                 IN IF value = <<>> THEN "none"
                    ELSE IF "options" \in DOMAIN field_info
                            /\ value \notin field_info.options THEN "options"
                    ELSE IF "max_length" \in DOMAIN field_info
                            /\ Len(value) > field_info.max_length THEN "max_length"
                    ELSE IF "min_length" \in DOMAIN field_info
                            /\ Len(value) < field_info.min_length THEN "min_length"
                    ELSE "none"

\* The constraints of a field that a prompt hands to the model: the prompts of
\* get_next_question (line 509) and generate_optional_question (line 813) list
\* the options; the prompts of get_clarification_message, get_fallback_question,
\* get_coach_intro and get_error_message hold the field name and the language.
PromptConstraints(kind, field_name) ==
  IF /\ kind \in {"question", "optional_question"}
     /\ field_name \in DOMAIN PROFILE_FIELDS
     /\ "options" \in DOMAIN PROFILE_FIELDS[field_name]
    THEN {"options"} ELSE {}

\* the constraints a generated text can refer to: those its prompts held
RECURSIVE TextConstraints(_)
TextConstraints(text) ==
  CASE text[1] = "llm" -> PromptConstraints(text[2], text[3])
    [] text[1] = "cat" -> TextConstraints(text[2]) \cup TextConstraints(text[3])
    [] OTHER -> {}

(***************************************************************************)
(* database.py                                                             *)
(***************************************************************************)
phone_to_uuid(phone_number) == <<"uuid5", phone_number>>

\* @retry(stop=stop_after_attempt(3), wait=wait_fixed(1)) on get_user_profile,
\* create_user_profile, update_user_profile and log_message: tenacity calls
\* the method again while it raises, three times at most
stop_after_attempt == 3

\* a method that lets the exception of a failed request through
db_raises_through(failed) == failed

\* the four methods catch every exception and return None or False
\* (lines 83-85, 112-115, 145-148, 175-178): the decorator sees no exception
db_raises(failed) == FALSE

\* the number of times the decorated method runs in one call
retry_attempts(failed) == IF db_raises(failed) THEN stop_after_attempt ELSE 1

\* rows of table selected by .eq("user_id", uid)
RowsOf(table, uid) == {row \in table : row["user_id"] = uid}

get_user_profile(table, phone_number, ok) ==
  LET data == RowsOf(table, phone_to_uuid(phone_number))
  IN IF ok /\ data # {} THEN CHOOSE row \in data : TRUE ELSE None

\* create_user_profile on a table without the primary key
create_user_profile_nopk(table, phone_number, ok) ==
  LET data == [user_id |-> phone_to_uuid(phone_number), phone_number |-> phone_number,
               language |-> und, step |-> "new"]
  IN IF ok THEN [ok |-> TRUE, table |-> table \cup {data}]
           ELSE [ok |-> FALSE, table |-> table]

\* create_user_profile that inserts the row with the language 'en'
create_user_profile_en(table, phone_number, ok) ==
  LET uid == phone_to_uuid(phone_number)
      data == [user_id |-> uid, phone_number |-> phone_number,
               language |-> <<"e", "n">>, step |-> "new"]
  IN IF ok /\ RowsOf(table, uid) = {}
       THEN [ok |-> TRUE, table |-> table \cup {data}]
       ELSE [ok |-> FALSE, table |-> table]

\* create_user_profile whose failed call has inserted the row all the same
create_user_profile_written(table, phone_number, ok) ==
  LET uid == phone_to_uuid(phone_number)
      data == [user_id |-> uid, phone_number |-> phone_number,
               language |-> und, step |-> "new"]
  IN IF RowsOf(table, uid) = {}
       THEN [ok |-> ok, table |-> table \cup {data}]
       ELSE [ok |-> FALSE, table |-> table]

\* create_user_profile as an upsert: the row of an existing user is replaced
create_user_profile_upsert(table, phone_number, ok) ==
  LET uid == phone_to_uuid(phone_number)
      data == [user_id |-> uid, phone_number |-> phone_number,
               language |-> und, step |-> "new"]
  IN IF ok THEN [ok |-> TRUE, table |-> (table \ RowsOf(table, uid)) \cup {data}]
           ELSE [ok |-> FALSE, table |-> table]

\* user_id is the PRIMARY KEY of user_profiles: inserting a second row with
\* the same user_id raises, and create_user_profile returns False.
create_user_profile(table, phone_number, ok) ==
  LET uid == phone_to_uuid(phone_number)
      data == [user_id |-> uid, phone_number |-> phone_number,
               language |-> und, step |-> "new"]
  IN IF ok /\ RowsOf(table, uid) = {}
       THEN [ok |-> TRUE, table |-> table \cup {data}]
       ELSE [ok |-> FALSE, table |-> table]

\* update_user_profile whose failed call has written all the same
update_user_profile_partial(table, phone_number, updates, ok) ==
  LET data == RowsOf(table, phone_to_uuid(phone_number))
      written == (table \ data) \cup {updates @@ row : row \in data}
  IN IF data # {} THEN [ok |-> ok, table |-> written]
                  ELSE [ok |-> FALSE, table |-> table]

\* update_user_profile that replaces the row by the updates and the key columns
update_user_profile_replace(table, phone_number, updates, ok) ==
  LET data == RowsOf(table, phone_to_uuid(phone_number))
  IN IF ok /\ data # {}
       THEN [ok |-> TRUE,
             table |-> (table \ data)
                         \cup {updates @@ [user_id |-> row["user_id"],
                                           phone_number |-> row["phone_number"],
                                           step |-> row["step"]] : row \in data}]
       ELSE [ok |-> FALSE, table |-> table]

update_user_profile(table, phone_number, updates, ok) ==
  LET uid == phone_to_uuid(phone_number)
      data == RowsOf(table, uid)
  IN IF ok /\ data # {}
       THEN [ok |-> TRUE,
             table |-> (table \ data) \cup {updates @@ row : row \in data}]
       ELSE [ok |-> FALSE, table |-> table]

\* log_message that puts the new entry in front of the older ones
log_message_front(log, phone_number, role, content, ok) ==
  IF ok THEN [log EXCEPT ![phone_number] =
                <<[phone_number |-> phone_number, role |-> role,
                   content |-> content]>> \o @]
        ELSE log

log_message(log, phone_number, role, content, ok) ==
  IF ok THEN [log EXCEPT ![phone_number] =
                Append(@, [phone_number |-> phone_number, role |-> role,
                           content |-> content])]
        ELSE log

\* get_last_assistant_message with the order ascending: the oldest entry
get_last_assistant_message_oldest(log, phone_number) ==
  LET idx == {i \in DOMAIN log[phone_number] : log[phone_number][i].role = "assistant"}
  IN IF idx = {} THEN None
     ELSE log[phone_number][CHOOSE i \in idx : \A j \in idx : i <= j].content

get_last_assistant_message(log, phone_number) ==
  LET idx == {i \in DOMAIN log[phone_number] : log[phone_number][i].role = "assistant"}
  IN IF idx = {} THEN None
     ELSE log[phone_number][CHOOSE i \in idx : \A j \in idx : j <= i].content

(***************************************************************************)
(* The environment of one turn                                             *)
(***************************************************************************)
\* the calls of one turn that may fail
FaultPoints ==
  {"welcome_llm", "get_user_profile", "create_user_profile", "log_user",
   "log_assistant", "error_llm", "detect_language", "update_user_profile",
   "intro_llm", "question_llm", "plan_llm", "extract_llm", "refresh",
   "next_question_llm", "clarification_llm"}

RECURSIVE SubsetsUpTo(_, _)
SubsetsUpTo(S, k) ==
  IF k <= 0 THEN {{}}
  ELSE LET smaller == SubsetsUpTo(S, k - 1)
       IN smaller \cup {T \cup {x} : T \in smaller, x \in S}

\* the sets of calls that may fail in one turn, within what is left of MaxFaults
FaultSets(points) == SubsetsUpTo(points \cap FaultPoints, MaxFaults - faults)

\* what the analyzer may answer when asked for field_name
Values(field_name) ==
  LET field_info == PROFILE_FIELDS[field_name]
  IN IF field_info.type = "number"
       THEN {JNum(field_info.min_value - 1), JNum(field_info.min_value),
             JNum(field_info.max_value), JNum(field_info.max_value + 1),
             JStr(digits(field_info.min_value + 1)), JStr(<<"x">>), JNull}
     ELSE IF "options" \in DOMAIN field_info
       THEN {JStr(<<"M", "a", "l", "e">>), JNull,
             JStr(<<" ", "H", "o", "m", "m", "e">>),
             JStr(<<"L", "i", "g", "h", "t", " ">>)}
     ELSE {JStr(<<"A", "l", " ">>), JStr(<<" ", "a">>), JStr(<<" ">>), JNull}

\* the texts of max_length characters and of one more
LongValues(field_name) ==
  LET field_info == PROFILE_FIELDS[field_name]
  IN IF "max_length" \in DOMAIN field_info
       THEN {JStr([i \in 1..field_info.max_length |-> "a"]),
             JStr([i \in 1..field_info.max_length + 1 |-> "a"])}
       ELSE {}

\* the answers of the analyzer that carry the values of field_name, the long
\* ones included or not
AnswersOf(field_name, long) ==
  IF field_name \in DOMAIN PROFILE_FIELDS
    THEN {NoJson, BadJson, JsonWithout("confidence"), JsonWithout("value")}
         \cup {Json(v, c) : v \in Values(field_name)
                                   \cup (IF long THEN LongValues(field_name) ELSE {}),
                            c \in {JNum(6999), JNum(7000), JNum(10000), JStr(<<"1">>)}}
    ELSE {NoJson}

AnalyzerAnswers(field_name) == AnswersOf(field_name, TRUE)

\* one analyzer answer for each value extract_field_value can return for the
\* values of Values
Answers(field_name) ==
  LET all == AnswersOf(field_name, FALSE)
      extracted == {extract_field_value(field_name, TRUE, a) : a \in all}
  IN {CHOOSE a \in all : extract_field_value(field_name, TRUE, a) = e : e \in extracted}

(***************************************************************************)
(* agent.py: process_incoming_message                                      *)
(***************************************************************************)
ensure_welcome_message(welcome, ok) ==
  IF welcome = None THEN generate_welcome_message(ok) ELSE welcome

get(user_profile, key, default) ==
  IF key \in DOMAIN user_profile THEN user_profile[key] ELSE default

Trace(p, flow, field, outcome, field_value, F) ==
  [phone |-> p, flow |-> flow, field |-> field, outcome |-> outcome,
   field_value |-> field_value, failed |-> F]

\* the end of a call: the stores as the call left them, the returned text, and
\* the calls of FaultPoints the call made
Return(table, log, welcome, text, trace, used) ==
  [user_profiles |-> table, conversation_messages |-> log,
   WELCOME_MESSAGE |-> welcome, reply |-> text, trace |-> trace, used |-> used]

\* lines 621-642
NewUser(S, p, F, welcome, user_lang) ==
  LET created == create_user_profile(S.user_profiles, p, "create_user_profile" \notin F)
      log1 == log_message(S.conversation_messages, p, "user", Lit("incoming_text"),
                          "log_user" \notin F)
      log2 == log_message(log1, p, "assistant", welcome, "log_assistant" \notin F)
  IN IF ~created.ok
       THEN Return(created.table, S.conversation_messages, welcome,
                   get_error_message("profile_creation_failed", user_lang,
                                     "error_llm" \notin F),
                   Trace(p, "new_user", "none", "create_failed", None, F),
                   {"create_user_profile", "error_llm"})
       ELSE Return(created.table, log2, welcome, welcome,
                   Trace(p, "new_user", "none", "welcome", None, F),
                   {"create_user_profile", "log_user", "log_assistant"})

NeedsLanguage(user_profile) ==
  "language" \notin DOMAIN user_profile \/ user_profile["language"] = und

\* lines 644-677
LanguageDetection(S, p, F, welcome, user_lang, language_reply) ==
  LET detected == detect_language("detect_language" \notin F, language_reply)
      detected_lang == IF detected = <<>> THEN <<"e", "n">> ELSE detected
      updates == [language |-> detected_lang, step |-> "language_detected"]
      updated == update_user_profile(S.user_profiles, p, updates,
                                     "update_user_profile" \notin F)
      coach_intro == get_coach_intro(detected_lang, "intro_llm" \notin F)
  IN IF ~updated.ok
       THEN Return(updated.table, S.conversation_messages, welcome,
                   get_error_message("language_detection_failed", user_lang,
                                     "error_llm" \notin F),
                   Trace(p, "language", "language", "update_failed", updates, F),
                   {"detect_language", "update_user_profile", "error_llm"})
       ELSE Return(updated.table,
                   log_message(S.conversation_messages, p, "assistant", coach_intro,
                               "log_assistant" \notin F),
                   welcome, coach_intro,
                   Trace(p, "language", "language", "stored", updates, F),
                   {"detect_language", "update_user_profile", "intro_llm",
                    "log_assistant"})

\* get_next_question asks the model unless it returns "complete"
QuestionPoints(user_profile, point) ==
  IF Missing(user_profile) = <<>> THEN {} ELSE {point}

\* the plan branch that stores 'complete' as the step
Plan_complete(S, p, F, welcome, user_lang, user_profile) ==
  LET plan == create_diet_plan(user_profile, "plan_llm" \notin F)
      updates == [step |-> "complete", plan |-> plan]
      updated == update_user_profile(S.user_profiles, p, updates,
                                     "update_user_profile" \notin F)
      response ==
        Cat(Lit("Great! I've created a personalized plan for you based on your profile."),
            plan)
  IN IF ~updated.ok
       THEN Return(updated.table, S.conversation_messages, welcome,
                   get_error_message("plan_creation_failed", user_lang,
                                     "error_llm" \notin F),
                   Trace(p, "plan", "complete", "update_failed", updates, F),
                   {"plan_llm", "update_user_profile", "error_llm"})
       ELSE Return(updated.table,
                   log_message(S.conversation_messages, p, "assistant", response,
                               "log_assistant" \notin F),
                   welcome, response,
                   Trace(p, "plan", "complete", "stored", updates, F),
                   {"plan_llm", "update_user_profile", "log_assistant"})

\* lines 683-710
Plan(S, p, F, welcome, user_lang, user_profile) ==
  LET plan == create_diet_plan(user_profile, "plan_llm" \notin F)
      updates == [step |-> "chat", plan |-> plan]
      updated == update_user_profile(S.user_profiles, p, updates,
                                     "update_user_profile" \notin F)
      response ==
        Cat(Lit("Great! I've created a personalized plan for you based on your profile."),
            plan)
  IN IF ~updated.ok
       THEN Return(updated.table, S.conversation_messages, welcome,
                   get_error_message("plan_creation_failed", user_lang,
                                     "error_llm" \notin F),
                   Trace(p, "plan", "complete", "update_failed", updates, F),
                   {"plan_llm", "update_user_profile", "error_llm"})
       ELSE Return(updated.table,
                   log_message(S.conversation_messages, p, "assistant", response,
                               "log_assistant" \notin F),
                   welcome, response,
                   Trace(p, "plan", "complete", "stored", updates, F),
                   {"plan_llm", "update_user_profile", "log_assistant"})

\* extract_field_value asks the model only for a field of PROFILE_FIELDS
ExtractPoints(field_name) ==
  IF field_name \in DOMAIN PROFILE_FIELDS THEN {"extract_llm"} ELSE {}

\* the clarification turn that sends the question alone
clarification_response_repeat(clarification, next_question) == next_question

\* line 752: f"{clarification} {next_question}"
clarification_response(clarification, next_question) == Cat(clarification, next_question)

\* lines 712-765
Field(S, p, F, welcome, user_lang, user_profile, current, answer) ==
  LET current_field == current[1]
      next_question == current[2]
      field_value == extract_field_value(current_field, "extract_llm" \notin F, answer)
      asked == QuestionPoints(user_profile, "question_llm") \cup ExtractPoints(current_field)
      updated == update_user_profile(S.user_profiles, p, field_value,
                                     "update_user_profile" \notin F)
      refreshed == get_user_profile(updated.table, p, "refresh" \notin F)
      following == get_next_question(refreshed, get(refreshed, "language", <<"e", "n">>),
                                     "next_question_llm" \notin F)
      clarification ==
        get_clarification_message(current_field,
                                  get(user_profile, "language", DEFAULT_LANGUAGE),
                                  "clarification_llm" \notin F)
      response == clarification_response(clarification, next_question)
  IN IF field_value # None
       THEN IF ~updated.ok
              THEN Return(updated.table, S.conversation_messages, welcome,
                          get_error_message("field_value_storage_failed", user_lang,
                                            "error_llm" \notin F),
                          Trace(p, "field", current_field, "update_failed", field_value, F),
                          asked \cup {"update_user_profile", "error_llm"})
            ELSE IF refreshed = None
              THEN Return(updated.table, S.conversation_messages, welcome,
                          get_error_message("user_profile_retrieval_failed", user_lang,
                                            "error_llm" \notin F),
                          Trace(p, "field", current_field, "refresh_failed", field_value, F),
                          asked \cup {"update_user_profile", "refresh", "error_llm"})
            ELSE Return(updated.table,
                        log_message(S.conversation_messages, p, "assistant",
                                    following[2], "log_assistant" \notin F),
                        welcome, following[2],
                        Trace(p, "field", current_field, "stored", field_value, F),
                        asked \cup {"update_user_profile", "refresh", "log_assistant"}
                          \cup QuestionPoints(refreshed, "next_question_llm"))
       ELSE Return(S.user_profiles,
                   log_message(S.conversation_messages, p, "assistant", response,
                               "log_assistant" \notin F),
                   welcome, response,
                   Trace(p, "field", current_field, "clarification", None, F),
                   asked \cup {"clarification_llm", "log_assistant"})

\* the test of line 684 without the step
NeedsPlan_always(current_field, user_profile) == current_field = "complete"

\* line 684
NeedsPlan(current_field, user_profile) ==
  current_field = "complete" /\ get(user_profile, "step", "none") # "chat"

\* One call process_incoming_message(p, incoming_text) in the stores S.  F is
\* the set of calls that fail; language_reply and answer are what the model
\* makes of incoming_text when asked for the language or for the active field.
process_incoming_message(S, p, F, language_reply, answer) ==
  LET welcome == ensure_welcome_message(S.WELCOME_MESSAGE, "welcome_llm" \notin F)
      user_profile == get_user_profile(S.user_profiles, p, "get_user_profile" \notin F)
      user_lang == IF user_profile # None
                     THEN get(user_profile, "language", DEFAULT_LANGUAGE)
                     ELSE DEFAULT_LANGUAGE
      current == get_next_question(user_profile, get(user_profile, "language", <<"e", "n">>),
                                   "question_llm" \notin F)
      r == IF user_profile = None
             THEN NewUser(S, p, F, welcome, user_lang)
           ELSE IF NeedsLanguage(user_profile)
             THEN LanguageDetection(S, p, F, welcome, user_lang, language_reply)
           ELSE IF NeedsPlan(current[1], user_profile)
             THEN Plan(S, p, F, welcome, user_lang, user_profile)
           ELSE Field(S, p, F, welcome, user_lang, user_profile, current, answer)
  IN [r EXCEPT !.used = @ \cup {"get_user_profile"}
                            \cup (IF S.WELCOME_MESSAGE = None THEN {"welcome_llm"} ELSE {})]

(***************************************************************************)
(* Specification                                                           *)
(***************************************************************************)
Stores == [user_profiles |-> user_profiles,
           conversation_messages |-> conversation_messages,
           WELCOME_MESSAGE |-> WELCOME_MESSAGE]

\* the field the next message of p is taken as an answer to
ActiveField(table, p) ==
  LET user_profile == get_user_profile(table, p, TRUE)
  IN IF user_profile = None THEN None
     ELSE IF NeedsLanguage(user_profile) THEN "language"
     ELSE Head(Missing(user_profile) \o <<"complete">>)

\* the calls of database.py among FaultPoints
StorePoints ==
  {"get_user_profile", "create_user_profile", "update_user_profile", "refresh",
   "log_user", "log_assistant"}

\* how often each call of the turn ran: the store calls as tenacity repeats
\* them, the calls of deepseek.py (one client.post each) once
Attempts(used, F) ==
  [point \in used |-> IF point \in StorePoints THEN retry_attempts(point \in F) ELSE 1]

\* a call that takes the branch flow, returns, and leaves the variables as r says
Call(p, F, language_reply, answer, flow) ==
  \E r \in {process_incoming_message(Stores, p, F, language_reply, answer)} :
     /\ turns < MaxTurns
     /\ r.trace.flow = flow
     /\ F \subseteq r.used
     /\ user_profiles' = r.user_profiles
     /\ conversation_messages' = r.conversation_messages
     /\ WELCOME_MESSAGE' = r.WELCOME_MESSAGE
     /\ reply' = [phone |-> p, text |-> r.reply]
     /\ last' = r.trace @@ [attempts |-> Attempts(r.used, F)]
     /\ plan_calls' = [plan_calls EXCEPT ![p] = IF flow = "plan" THEN @ + 1 ELSE @]
     /\ last_analyzer_response' = IF flow = "field" /\ "extract_llm" \notin F
                                     THEN answer ELSE NoJson
     /\ turns' = turns + 1
     /\ faults' = faults + Cardinality(F)
     /\ UNCHANGED <<tasks, sending,
                    current_state, onboarding, webhook>>

NewUserFlow(p) ==
  \E F \in FaultSets({"welcome_llm", "get_user_profile", "create_user_profile",
                      "log_user", "log_assistant", "error_llm"}) :
    Call(p, F, <<>>, NoJson, "new_user")

LanguageDetectionFlow(p) ==
  \E F \in FaultSets({"welcome_llm", "get_user_profile", "detect_language",
                      "update_user_profile", "intro_llm", "log_assistant",
                      "error_llm"}),
     language_reply \in LanguageReplies :
    Call(p, F, language_reply, NoJson, "language")

PlanFlow(p) ==
  \E F \in FaultSets({"welcome_llm", "get_user_profile", "plan_llm",
                      "update_user_profile", "log_assistant", "error_llm"}) :
    Call(p, F, <<>>, NoJson, "plan")

FieldFlow(p) ==
  \E F \in FaultSets({"welcome_llm", "get_user_profile", "question_llm", "extract_llm",
                      "update_user_profile", "refresh", "next_question_llm",
                      "clarification_llm", "log_assistant", "error_llm"}),
     answer \in Answers(ActiveField(user_profiles, p)) :
    Call(p, F, <<>>, answer, "field")

(***************************************************************************)
(* data/models.py: ConversationState; managers/flow_manager.py             *)
(***************************************************************************)
\* the members of the enum, in the order of their definition
ConversationState ==
  <<"introduction", "language_selection", "language_confirmation", "name_collection",
    "age_collection", "height_collection", "start_weight_collection", "goal_collection",
    "target_date_collection", "diet_preferences", "diet_restrictions", "plan_generation",
    "plan_review", "free_chat">>

\* data/models.py lines 26-44: states_flow.get(self, self)
next_state(self) ==
  CASE self = "introduction" -> "language_selection"
    [] self = "language_selection" -> "language_confirmation"
    [] self = "language_confirmation" -> "name_collection"
    [] self = "name_collection" -> "age_collection"
    [] self = "age_collection" -> "height_collection"
    [] self = "height_collection" -> "start_weight_collection"
    [] self = "start_weight_collection" -> "goal_collection"
    [] self = "goal_collection" -> "target_date_collection"
    [] self = "target_date_collection" -> "diet_preferences"
    [] self = "diet_preferences" -> "diet_restrictions"
    [] self = "diet_restrictions" -> "plan_generation"
    [] self = "plan_generation" -> "plan_review"
    [] self = "plan_review" -> "free_chat"
    [] self = "free_chat" -> "free_chat"
    [] OTHER -> self

upper_char(c) ==
  IF \E i \in DOMAIN LowerCase : LowerCase[i] = c
    THEN UpperCase[CHOOSE i \in DOMAIN LowerCase : LowerCase[i] = c]
    ELSE IF c = "c," THEN "C," ELSE c

upper(s) == [i \in DOMAIN s |-> upper_char(s[i])]

\* Python's test 'sub in s' on strings
Contains(sub, s) ==
  \E i \in 0..(Len(s) - Len(sub)) : SubSeq(s, i + 1, i + Len(sub)) = sub

\* int(s) and float(s) of a string: of the strings they accept, the unsigned
\* decimal integers are modelled; [ok |-> FALSE] stands for ValueError
int(s) == float(JStr(s))

\* the parts of s between the occurrences of sep
RECURSIVE split(_, _)
split(s, sep) ==
  IF \A i \in DOMAIN s : s[i] # sep THEN <<s>>
  ELSE LET i == CHOOSE k \in DOMAIN s : s[k] = sep /\ \A j \in 1..(k - 1) : s[j] # sep
       IN <<SubSeq(s, 1, i - 1)>> \o split(SubSeq(s, i + 1, Len(s)), sep)

DaysIn(year, month) ==
  IF month = 2
    THEN IF year % 4 = 0 /\ (year % 100 # 0 \/ year % 400 = 0) THEN 29 ELSE 28
  ELSE IF month \in {4, 6, 9, 11} THEN 30 ELSE 31

\* flow_manager.py lines 150-156: datetime.strptime(date_str.strip(), "%Y-%m-%d")
\* does not raise ValueError
validate_date_format(date_str) ==
  LET parts == split(strip(date_str), "-")
      number(part) == part # <<>> /\ \A i \in DOMAIN part : IsDigit(part[i])
  IN /\ Len(parts) = 3
     /\ \A i \in 1..3 : number(parts[i])
     /\ Len(parts[1]) = 4
     /\ Len(parts[2]) \in {1, 2} /\ Len(parts[3]) \in {1, 2}
     /\ parse_digits(parts[2]) \in 1..12
     /\ parse_digits(parts[3]) \in 1..DaysIn(parse_digits(parts[1]), parse_digits(parts[2]))

\* the words of lines 61 and 63; "C," and "c," stand for the C with cedilla
FrenchWords ==
  {<<"F", "R">>, <<"F", "R", "A", "N", "C,", "A", "I", "S">>,
   <<"F", "R", "E", "N", "C", "H">>, <<"F", "R", "A", "N", "C", "A", "I", "S">>}
EnglishWords == {<<"E", "N">>, <<"E", "N", "G", "L", "I", "S", "H">>, <<"A", "N", "G", "L", "A", "I", "S">>}

\* lines 75-81, 85-91, 95-101, 105-111: a number in [low, high] moves on to
\* next, any other message stays with an error message
number_state(current, parse, low, high, next, out_of_range, not_a_number) ==
  IF ~parse.ok THEN <<current, Lit(not_a_number)>>                    \* ValueError
  ELSE IF parse.v < low \/ parse.v > high THEN <<current, Lit(out_of_range)>>
  ELSE <<next, None>>

\* flow_manager.py lines 36-139: <<next state, error message>> (the texts
\* without their accents)
determine_next_state(state, message) ==
  IF state = "introduction" THEN <<"language_selection", None>>
  ELSE IF state = "language_selection"
    THEN LET value == upper(strip(message))
         IN IF \E french \in FrenchWords : Contains(french, value)
              THEN <<"language_confirmation", None>>
            ELSE IF \E english \in EnglishWords : Contains(english, value)
              THEN <<"language_confirmation", None>>
            ELSE <<state,
                   Lit("Please specify your language preference (English or Francais)")>>
  ELSE IF state = "name_collection"
    THEN IF strip(message) = <<>> THEN <<state, Lit("Veuillez indiquer votre prenom")>>
         ELSE <<"age_collection", None>>
  ELSE IF state = "age_collection"
    THEN number_state(state, int(strip(message)), 12, 100, "height_collection",
                      "L'age doit etre entre 12 et 100 ans",
                      "Veuillez entrer un nombre valide pour votre age")
  ELSE IF state = "height_collection"
    THEN number_state(state, int(strip(message)), 100, 250, "start_weight_collection",
                      "La taille doit etre entre 100 et 250 cm",
                      "Veuillez entrer un nombre valide pour votre taille en cm")
  ELSE IF state = "start_weight_collection"
    THEN number_state(state, float(JStr(strip(message))), 30, 300, "goal_collection",
                      "Le poids doit etre entre 30 et 300 kg",
                      "Veuillez entrer un nombre valide pour votre poids")
  ELSE IF state = "goal_collection"
    THEN number_state(state, float(JStr(strip(message))), 30, 300,
                      "target_date_collection",
                      "Le poids cible doit etre entre 30 et 300 kg",
                      "Veuillez entrer un nombre valide pour votre poids cible")
  ELSE IF state = "target_date_collection"
    THEN IF ~validate_date_format(message)
           THEN <<state, Lit("Veuillez entrer une date au format AAAA-MM-JJ")>>
           ELSE <<"diet_preferences", None>>
  ELSE IF state = "diet_preferences" THEN <<"diet_restrictions", None>>
  ELSE IF state = "diet_restrictions" THEN <<"plan_generation", None>>
  ELSE IF state = "plan_generation" THEN <<"plan_review", None>>
  ELSE IF state = "plan_review" THEN <<"free_chat", None>>
  ELSE <<"free_chat", None>>                                    \* line 135

\* the messages of a user
Messages ==
  {<<"f", "r">>,
   <<" ", "E", "n", "g", "l", "i", "s", "h", " ">>,
   <<"h", "e", "l", "l", "o">>,
   <<"f", "r", "a", "n", "c,", "a", "i", "s">>,
   <<>>,
   <<" ">>,
   <<"4", "2">>,
   <<"5">>,
   <<"1", "7", "5">>,
   <<"7", "0">>,
   <<"2", "0", "2", "5", "-", "0", "1", "-", "3", "1">>,
   <<"2", "0", "2", "5", "-", "0", "2", "-", "3", "0">>,
   <<"3", "1", "/", "0", "1", "/", "2", "0", "2", "5">>}

\* a conversation that has not started
NoConversation ==
  [state |-> "introduction", message |-> None, error |-> None,
   visited |-> {"introduction"}]

\* the caller of determine_next_state keeps the state it returns
DetermineNextState(message) ==
  \E r \in {determine_next_state(current_state.state, message)} :
    /\ current_state' = [state |-> r[1], message |-> message, error |-> r[2],
                         visited |-> current_state.visited \cup {r[1]}]
    /\ UNCHANGED <<user_profiles, conversation_messages, WELCOME_MESSAGE, reply, last,
                   plan_calls, last_analyzer_response, turns, faults, tasks, sending,
                   onboarding, webhook>>

(***************************************************************************)
(* services/diet_agent.py: DietAgent                                       *)
(***************************************************************************)
\* lines 18-27
required_fields ==
  <<"first_name", "age", "height_cm", "current_weight", "target_weight",
    "activity_level", "diet_restrictions", "health_conditions">>

\* What a call of an async method of data.database.db evaluates to where the
\* call is not awaited: a coroutine object.  It is truthy, it has no method
\* get, and its body never runs.
Coroutine == <<"coroutine">>

\* db.get_user_profile(self.user_id) of lines 33 and 93: data/database.py
\* declares the method async (line 148) and the call has no await
db_get_user_profile(row) == Coroutine

\* a call db.update_user_profile(user_id=..., data=...) of diet_agent.py: the
\* method is async (data/database.py line 165), none of the calls is awaited
db_update_user_profile(data) ==
  [method |-> "update_user_profile", data |-> data, awaited |-> FALSE]

\* the row of the user after the calls of one handler: only an awaited call
\* reaches the database
RECURSIVE RowAfter(_, _)
RowAfter(row, calls) ==
  IF calls = <<>> THEN row
  ELSE RowAfter(IF Head(calls).awaited THEN Head(calls).data @@ row ELSE row,
                Tail(calls))

\* lines 306-331: the generated message, or the fallback of the language
agent_get_error_message(language, ok) ==
  IF ok THEN Llm("error", "none", language)
  ELSE IF language = <<"f", "r">>
    THEN Lit("Je suis desole, mais j'ai rencontre une erreur. Veuillez reessayer.")
  ELSE Lit("I apologize, but I encountered an error. Please try again.")

\* lines 49-63
initialize_fields_to_ask(profile) ==
  IF "fields_to_ask" \in DOMAIN profile
    THEN [fields_to_ask |-> profile["fields_to_ask"], calls |-> <<>>]
    ELSE LET fields_to_ask ==
               SelectSeq(required_fields, LAMBDA field : field \notin DOMAIN profile)
         IN [fields_to_ask |-> fields_to_ask,
             calls |-> <<db_update_user_profile([fields_to_ask |-> fields_to_ask])>>]

\* what the validator model answers: the call raises, text that is no JSON,
\* {"valid": false}, {"valid": true} without a value, {"valid": true, "value": v}
Validations == {"raises", "not json", "invalid", "valid without value", "valid"}

\* lines 122-170: False, or what db.update_user_profile(...) evaluates to
store_profile_data(field, validation, profile) ==
  IF validation = "valid"
    THEN [truthy |-> TRUE, returned |-> Coroutine,
          calls |-> <<db_update_user_profile((field :> "value"))>>]
    ELSE [truthy |-> FALSE, returned |-> None, calls |-> <<>>]

\* lines 234-265
generate_field_question(field, language, is_retry, F) ==
  IF "question" \notin F
    THEN Llm(IF is_retry THEN "retry question" ELSE "question", field, language)
    ELSE agent_get_error_message(language, "error" \notin F)

\* generate_profile_summary that marks the chat state before it asks for the
\* summary
generate_profile_summary_early(profile, F) ==
  LET language == get(profile, "language", <<"e", "n">>)
      update == db_update_user_profile([conversation_state |-> "chat"])
  IN IF "summary" \in F
       THEN [reply |-> agent_get_error_message(language, "error" \notin F),
             calls |-> <<update>>, outcome |-> "summary failed"]
       ELSE [reply |-> Llm("summary", "none", language), calls |-> <<update>>,
             outcome |-> "summary"]

\* lines 267-304
generate_profile_summary(profile, F) ==
  LET language == get(profile, "language", <<"e", "n">>)
      update == db_update_user_profile([conversation_state |-> "chat"])
  IN IF "summary" \in F
       THEN [reply |-> agent_get_error_message(language, "error" \notin F),
             calls |-> <<>>, outcome |-> "summary failed"]
       ELSE [reply |-> Llm("summary", "none", language), calls |-> <<update>>,
             outcome |-> "summary"]

\* lines 65-120.  F: the generation calls that raise.
handle_onboarding(profile, validation, F) ==
  LET language == get(profile, "language", <<"e", "n">>)
      init == initialize_fields_to_ask(profile)
      fields_to_ask == init.fields_to_ask
      error == agent_get_error_message(language, "error" \notin F)
  IN IF fields_to_ask = <<>>
       THEN LET summary == generate_profile_summary(profile, F)
            IN [reply |-> summary.reply, calls |-> init.calls \o summary.calls,
                field |-> "none", stored |-> FALSE, outcome |-> summary.outcome,
                asked |-> fields_to_ask]
       ELSE
         LET current_field == Head(fields_to_ask)
             stored == store_profile_data(current_field, validation, profile)
             updated_profile == db_get_user_profile(RowAfter(profile, init.calls \o stored.calls))
             remaining ==
               IF "fields_to_ask" \in DOMAIN updated_profile
                 THEN SelectSeq(updated_profile["fields_to_ask"],
                                LAMBDA f : f # current_field)
                 ELSE <<>>
             update == db_update_user_profile([fields_to_ask |-> remaining])
             turn == [field |-> current_field, stored |-> stored.truthy,
                      asked |-> fields_to_ask]
         IN IF ~stored.truthy
              THEN turn @@
                   [reply |-> generate_field_question(current_field, language, TRUE, F),
                    calls |-> init.calls \o stored.calls, outcome |-> "retry"]
            ELSE IF updated_profile = None                       \* ValueError, line 95
              THEN turn @@ [reply |-> error, calls |-> init.calls \o stored.calls,
                            outcome |-> "error"]
            ELSE IF updated_profile = Coroutine                  \* AttributeError, line 98
              THEN turn @@ [reply |-> error, calls |-> init.calls \o stored.calls,
                            outcome |-> "error"]
            ELSE IF remaining = <<>>
              THEN LET summary == generate_profile_summary(updated_profile, F)
                   IN turn @@
                      [reply |-> summary.reply,
                       calls |-> init.calls \o stored.calls \o <<update>> \o summary.calls,
                       outcome |-> summary.outcome]
            ELSE turn @@
                 [reply |-> generate_field_question(Head(remaining), language, FALSE, F),
                  calls |-> init.calls \o stored.calls \o <<update>>,
                  outcome |-> "next"]

\* no call of handle_onboarding yet
NoOnboarding ==
  [profile |-> [conversation_state |-> "onboarding"], reply |-> None, calls |-> <<>>,
   field |-> "none", stored |-> FALSE, outcome |-> "none", asked |-> <<>>,
   failed |-> {}, handled |-> 0]

\* One call of handle_onboarding for an inbound message, with the stored row
\* of the user as its profile; the row it leaves is the one the next call gets
HandleOnboarding(validation, F) ==
  \E r \in {handle_onboarding(onboarding.profile, validation, F)} :
    /\ onboarding.handled < MaxTurns
    /\ get(onboarding.profile, "conversation_state", "none") = "onboarding"
    /\ onboarding' = r @@ [profile |-> RowAfter(onboarding.profile, r.calls),
                           failed |-> F, handled |-> onboarding.handled + 1]
    /\ UNCHANGED <<user_profiles, conversation_messages, WELCOME_MESSAGE, reply, last,
                   plan_calls, last_analyzer_response, turns, faults, tasks, sending,
                   current_state, webhook>>

\* no call of a handler of WebhookService yet: nothing sent, nothing stored
NoWebhook ==
  [handler |-> "none", phone |-> "none", status |-> "none", sends |-> <<>>,
   stores |-> <<>>, history |-> <<>>, delivered |-> {}, handled |-> 0]

\* no call of send_message_with_retry yet
NotSending ==
  [pc |-> "idle", max_retries |-> 0, attempt |-> 0, calls |-> 0, failed |-> 0,
   refreshes |-> 0, result |-> None]

\* the calls of process_incoming_message the event loop may hold at a time
Tasks == {"t1", "t2"}

\* a call that has not started: no locals
Idle ==
  [pc |-> "idle", phone |-> "none", user_profile |-> None, current |-> None,
   field_value |-> None, response |-> None, overlapped |-> FALSE]

NoTasks == [t \in Tasks |-> Idle]

\* The stores after k messages of "p1", each answered without a failure and
\* with an answer that is accepted: the stores an earlier run of the process
\* can have left behind.
CleanLanguageReply == <<"F", "R", " ">>

CleanAnswer(field_name) ==
  CHOOSE a \in Answers(field_name) :
    field_name \in DOMAIN PROFILE_FIELDS => extract_field_value(field_name, TRUE, a) # None

RECURSIVE Earlier(_)
Earlier(k) ==
  IF k = 0
    THEN [user_profiles |-> {}, conversation_messages |-> [p \in Phones |-> <<>>],
          WELCOME_MESSAGE |-> None]
    ELSE CHOOSE next \in
           { [user_profiles |-> r.user_profiles,
              conversation_messages |-> r.conversation_messages,
              WELCOME_MESSAGE |-> r.WELCOME_MESSAGE] :
             r \in { process_incoming_message(
                        S, "p1", {}, CleanLanguageReply,
                        CleanAnswer(ActiveField(S.user_profiles, "p1"))) :
                      S \in {Earlier(k - 1)} } } : TRUE

\* new user, language, every field of QuestionOrder, plan
Stages == Len(QuestionOrder) + 3

\* A process that has just started (WELCOME_MESSAGE unset) on the stores an
\* earlier run left behind.
Init ==
  /\ \E k \in 0..Stages : \E S \in {Earlier(k)} :
       /\ user_profiles = S.user_profiles
       /\ conversation_messages = S.conversation_messages
  /\ WELCOME_MESSAGE = None
  /\ reply = None
  /\ last = None
  /\ plan_calls = [p \in Phones |-> 0]
  /\ last_analyzer_response = NoJson
  /\ turns = 0
  /\ faults = 0
  /\ tasks = NoTasks
  /\ sending = NotSending
  /\ current_state = NoConversation
  /\ onboarding = NoOnboarding
  /\ webhook = NoWebhook

Next ==
  \E p \in Phones :
    \/ NewUserFlow(p)
    \/ LanguageDetectionFlow(p)
    \/ PlanFlow(p)
    \/ FieldFlow(p)

Spec == Init /\ [][Next]_vars

\* The first message of a run, taken as the answer to the active field, with
\* every answer of the analyzer and no failure but of the analyzer call.
FirstAnswer(p) ==
  \E F \in SUBSET {"extract_llm"},
     answer \in AnalyzerAnswers(ActiveField(user_profiles, p)) :
    /\ turns = 0
    /\ Call(p, F, <<>>, answer, "field")

AnalyzerNext == \E p \in Phones : FirstAnswer(p)

AnalyzerSpec == Init /\ [][AnalyzerNext]_vars

(***************************************************************************)
(* Properties                                                              *)
(***************************************************************************)
\* the stored profile of p, None when there is none
ProfileOf(table, p) ==
  IF \E row \in table : row["phone_number"] = p
    THEN CHOOSE row \in table : row["phone_number"] = p
    ELSE None

RequiredFields ==
  <<"name", "age", "gender", "height", "start_weight", "target_weight", "activity_level">>

RegistryFields == RequiredFields \o <<"dietary_restrictions", "health_conditions">>

\* the first field of order that holds no value in profile, "complete" if none
FirstUnset(order, profile) ==
  IF \A i \in DOMAIN order : order[i] \in DOMAIN profile
    THEN "complete"
    ELSE order[CHOOSE i \in DOMAIN order :
                 /\ order[i] \notin DOMAIN profile
                 /\ \A j \in 1..(i - 1) : order[j] \in DOMAIN profile]

\* the last call handled an answer to one of the collected fields
AnsweredField == last # None /\ last.flow = "field" /\ last.field # "complete"

\* C1 (step): a turn of the field flow takes the message as an answer to the
\* first required field, in registry order, that holds no value: every earlier
\* required field is stored and the active one is not; an accepted answer
\* stores exactly the active field, so the next active field is the next one.
C1_Step ==
  (AnsweredField' /\ last'.field \in Range(RequiredFields)) =>
     LET before == ProfileOf(user_profiles, last'.phone)
         after == ProfileOf(user_profiles', last'.phone)
     IN /\ last'.field = FirstUnset(RequiredFields, before)
        /\ last'.outcome = "stored" =>
             /\ DOMAIN after = DOMAIN before \cup {last'.field}
             /\ \A i \in 1..(Len(RequiredFields) - 1) :
                  last'.field = RequiredFields[i] =>
                    FirstUnset(RequiredFields, after) = RequiredFields[i + 1]

\* C1 (state): the state is 'complete' only when every required field holds a value.
C1_Complete ==
  (last # None /\ last.field = "complete") =>
     \A i \in DOMAIN RequiredFields :
        RequiredFields[i] \in DOMAIN ProfileOf(user_profiles, last.phone)

\* C1: monotonic progress.  Valid answers delivered in order visit the required
\* fields name, age, gender, height, start_weight, target_weight, activity_level
\* one after the other, each once, and 'complete' is reached only when every
\* required field has a stored value.
C1_MonotonicProgress == [][C1_Step]_vars /\ []C1_Complete

\* at the end of a run without failures a valid answer for activity_level, the
\* last required field, was stored, after which no required field is left
C1_Witness ==
  /\ turns = MaxTurns /\ faults = 0
  /\ FirstUnset(RequiredFields, ProfileOf(user_profiles, last.phone)) = "complete"
  /\ last.flow = "field" /\ last.outcome = "stored" /\ last.field = "activity_level"

\* what PROFILE_FIELDS allows as a value of field
ValidValue(field, v) ==
  CASE field = "name" -> Len(v) >= 2 /\ Len(v) <= 50
    [] field = "age" -> v >= 18 /\ v <= 120
    [] field = "gender" -> v \in {homme, femme}
    [] field = "height" -> v >= 100 /\ v <= 250
    [] field \in {"start_weight", "target_weight"} -> v >= 30 /\ v <= 300
    [] field = "activity_level" -> v \in {sedentary, light, moderate, active, very_active}
    [] OTHER -> Len(v) >= 1

\* C2: rejection is non-destructive.  A turn whose candidate is rejected leaves
\* the table of profiles as it was and the active field the same, and every
\* value a profile holds for a collected field is one the validation accepts.
C2_Step ==
  (AnsweredField' /\ last'.outcome = "clarification") =>
     /\ user_profiles' = user_profiles
     /\ FirstUnset(RegistryFields, ProfileOf(user_profiles', last'.phone)) = last'.field
     /\ last'.field = FirstUnset(RegistryFields, ProfileOf(user_profiles, last'.phone))

C2_Stored ==
  \A row \in user_profiles : \A i \in DOMAIN RegistryFields :
     RegistryFields[i] \in DOMAIN row => ValidValue(RegistryFields[i], row[RegistryFields[i]])

C2_RejectionNonDestructive == [][C2_Step]_vars /\ []C2_Stored

\* an answer for age was rejected while name was already stored
C2_Witness ==
  /\ AnsweredField /\ last.outcome = "clarification" /\ last.field = "age"
  /\ last.failed = {}
  /\ "name" \in DOMAIN ProfileOf(user_profiles, last.phone)

\* C3: accept transition.  When the candidate for the active field F is accepted
\* and the write succeeds, the profile maps F to the accepted value and the next
\* active field is the first field in registry order that is still unset,
\* 'complete' if there is none.
C3_Step ==
  (AnsweredField' /\ last'.outcome \in {"stored", "refresh_failed"}) =>
     LET before == ProfileOf(user_profiles, last'.phone)
         after == ProfileOf(user_profiles', last'.phone)
         F == last'.field
     IN /\ DOMAIN last'.field_value = {F}
        /\ F \notin DOMAIN before
        /\ F \in DOMAIN after /\ after[F] = last'.field_value[F]
        /\ ActiveField(user_profiles', last'.phone) = FirstUnset(RegistryFields, after)
        /\ \A i \in 1..Len(RegistryFields) :
             F = RegistryFields[i] =>
               ActiveField(user_profiles', last'.phone)
                 = (RegistryFields \o <<"complete">>)[i + 1]

C3_AcceptTransition == [][C3_Step]_vars

\* target_weight was accepted and stored, and the next field is activity_level
C3_Witness ==
  /\ AnsweredField /\ last.outcome = "stored" /\ last.field = "target_weight"
  /\ ProfileOf(user_profiles, last.phone)["target_weight"] = 300
  /\ ActiveField(user_profiles, last.phone) = "activity_level"

\* the generic error reply: what get_error_message returns
IsErrorReply(text) ==
  \/ text = Sorry
  \/ text = Lit("I encountered an error. Please try again.")
  \/ text[1] = "llm" /\ text[2] = "error"

C5_PlanFailureStaysComplete ==
  [][(last'.flow = "plan" /\ "plan_llm" \in last'.failed)
       => LET after == ProfileOf(user_profiles', last'.phone)
          IN /\ get(after, "step", "none") # "chat"
             /\ "plan" \notin DOMAIN after
             /\ IsErrorReply(reply'.text)
             /\ NeedsPlan(ActiveField(user_profiles', last'.phone), after)]_vars

AllStored(order, profile) == \A i \in DOMAIN order : order[i] \in DOMAIN profile

\* the plan turn: one call of the plan collaborator; when the write succeeds the
\* step is 'chat' and the reply holds the stored plan.  No other turn calls it,
\* and none at all once the step is 'chat'.
C6_PlanStep ==
  LET p == last'.phone
      before == ProfileOf(user_profiles, p)
      after == ProfileOf(user_profiles', p)
  IN /\ plan_calls'[p] = plan_calls[p] + (IF last'.flow = "plan" THEN 1 ELSE 0)
     /\ \A q \in Phones \ {p} : plan_calls'[q] = plan_calls[q]
     /\ (last'.flow = "plan" /\ last'.outcome = "stored") =>
          /\ after["step"] = "chat"
          /\ reply'.text[1] = "cat" /\ reply'.text[3] = after["plan"]
     /\ (before # None /\ get(before, "step", "none") = "chat") =>
          /\ plan_calls'[p] = plan_calls[p]
          /\ after["step"] = "chat"

HasValue(profile, f) ==
  /\ profile # None
  /\ f \in DOMAIN profile
  /\ f = "language" => profile[f] # und

\* C7: a field that holds a stored value (language included) is never the active
\* field of a later turn and its value is never replaced.
C7_NeverRevisited ==
  [][\A p \in Phones : \A f \in Range(RegistryFields) \cup {"language"} :
       HasValue(ProfileOf(user_profiles, p), f) =>
         /\ HasValue(ProfileOf(user_profiles', p), f)
         /\ ProfileOf(user_profiles', p)[f] = ProfileOf(user_profiles, p)[f]
         /\ ~(last'.phone = p /\ last'.field = f)]_vars

\* age was stored in a turn that found language and name stored
C7_Witness ==
  /\ AnsweredField /\ last.outcome = "stored" /\ last.field = "age"
  /\ HasValue(ProfileOf(user_profiles, last.phone), "name")
  /\ HasValue(ProfileOf(user_profiles, last.phone), "language")
  /\ turns >= 2

\* C8: idempotent creation.  A contact never has two profiles, and the user id
\* of a profile is the uuid5 of its contact identifier.
C8_IdempotentCreation ==
  /\ \A p \in Phones : Cardinality({row \in user_profiles : row["phone_number"] = p}) <= 1
  /\ \A row \in user_profiles : row["user_id"] = <<"uuid5", row["phone_number"]>>
  /\ \A r1, r2 \in user_profiles : r1["user_id"] = r2["user_id"] => r1 = r2

\* the second message of the never-seen contact p2 found the one profile the
\* first message created
C8_Witness ==
  /\ last # None /\ last.phone = "p2" /\ last.flow = "language"
  /\ Cardinality({row \in user_profiles : row["phone_number"] = "p2"}) = 1

C10_BothMessagesLogged ==
  [][(last'.flow \in {"language", "field", "plan"}) =>
       conversation_messages'[last'.phone] =
         conversation_messages[last'.phone]
           \o << [phone_number |-> last'.phone, role |-> "user",
                  content |-> Lit("incoming_text")],
                 [phone_number |-> last'.phone, role |-> "assistant",
                  content |-> reply'.text] >>]_vars

\* C11 as stated: when the validator turns the typed value down (an age of 17
\* where the minimum is 18), the state stays at the active field and the reply
\* is a clarification that refers to the constraint that was violated.
C11_ClarificationNamesConstraint ==
  [][(last'.flow = "field" /\ Violation(last'.field, last_analyzer_response') # "none") =>
       /\ last'.outcome = "clarification"
       /\ user_profiles' = user_profiles
       /\ Violation(last'.field, last_analyzer_response') \in TextConstraints(reply'.text)]_vars

\* the texts in which the code asks for field_name for the first time
OriginalQuestions(user_profile, field_name) ==
  {get_next_question(user_profile, user_profile["language"], ok)[2] : ok \in BOOLEAN}
  \cup (IF field_name = "name"
          THEN {get_coach_intro(user_profile["language"], ok) : ok \in BOOLEAN}
          ELSE {})

\* C12: on a retry transition the reply is a clarification for the active field
\* followed by its question: it is never the question alone, nor the text in
\* which the field was asked first.
C12_ClarificationDistinct ==
  [][(AnsweredField' /\ last'.outcome = "clarification") =>
       LET user_profile == ProfileOf(user_profiles, last'.phone)
           questions == OriginalQuestions(user_profile, last'.field)
       IN /\ reply'.text \notin questions
          /\ reply'.text[1] = "cat" /\ reply'.text[3] \in questions
          /\ "clarification_llm" \notin last'.failed =>
               reply'.text[2] = Llm("clarification", last'.field, user_profile["language"])
          /\ get_last_assistant_message(conversation_messages, last'.phone) \in questions =>
               reply'.text # get_last_assistant_message(conversation_messages, last'.phone)]_vars

\* an answer for gender was turned down right after the question for gender
\* was sent, and the reply is not that question
C12_Witness ==
  /\ AnsweredField /\ last.outcome = "clarification" /\ last.field = "gender"
  /\ turns = 1
  /\ reply.text[3] = Llm("question", "gender", ProfileOf(user_profiles, last.phone)["language"])
  /\ reply.text # Llm("question", "gender", ProfileOf(user_profiles, last.phone)["language"])

\* the answer of the analyzer does not parse into an object with the keys
\* value, confidence, normalized and original_format
Unparseable(response) ==
  \/ ~response.braces
  \/ ~response.parses
  \/ \E key \in {"value", "confidence", "normalized", "original_format"} :
        key \notin DOMAIN response.object

\* the answer parses and states a confidence below 0.7
BelowThreshold(response) ==
  /\ ~Unparseable(response)
  /\ response.object.confidence.t = "num"
  /\ response.object.confidence.v < 7000

\* the last call took the message as an answer to a field of the registry
ExtractedField == last # None /\ last.flow = "field" /\ last.field \in DOMAIN PROFILE_FIELDS

\* C13: the extractor yields no value, and the turn writes nothing and leaves
\* the active field as it is, whenever the call of the analyzer fails, its
\* answer does not parse into the required shape, or its confidence is below 0.7.
C13_ExtractorFails ==
  [][(/\ ExtractedField'
      /\ \/ "extract_llm" \in last'.failed
         \/ Unparseable(last_analyzer_response')
         \/ BelowThreshold(last_analyzer_response')) =>
       /\ last'.outcome = "clarification" /\ last'.field_value = None
       /\ user_profiles' = user_profiles
       /\ ActiveField(user_profiles', last'.phone) = last'.field]_vars

\* the analyzer gave a value that the field allows with confidence 0.6999, and
\* nothing was stored
C13_Witness ==
  /\ ExtractedField /\ last.field = "height" /\ last.failed = {}
  /\ BelowThreshold(last_analyzer_response)
  /\ last_analyzer_response.object.value = JNum(100)
  /\ last_analyzer_response.object.confidence = JNum(6999)
  /\ last.outcome = "clarification"
  /\ "height" \notin DOMAIN ProfileOf(user_profiles, last.phone)

\* C14: threshold boundary.  An answer with confidence exactly 0.7 is treated as
\* one with full confidence: its value goes to validation and a value the field
\* allows is stored; the same answer with confidence 0.6999 is turned down.
C14_ThresholdBoundary ==
  [][(/\ ExtractedField' /\ last'.failed = {}
      /\ ~Unparseable(last_analyzer_response')) =>
       LET result == last_analyzer_response'.object
           F == last'.field
       IN /\ result.confidence = JNum(6999) =>
               /\ last'.outcome = "clarification"
               /\ user_profiles' = user_profiles
          /\ result.confidence = JNum(7000) =>
               /\ last'.field_value
                    = extract_field_value(F, TRUE, Json(result.value, JNum(10000)))
               /\ (/\ PROFILE_FIELDS[F].type = "number" /\ result.value.t = "num"
                   /\ ValidValue(F, result.value.v)) =>
                     /\ last'.outcome = "stored"
                     /\ ProfileOf(user_profiles', last'.phone)[F] = result.value.v]_vars

\* the least age the field allows came with confidence exactly 0.7 and was stored
C14_Witness ==
  /\ ExtractedField /\ last.field = "age" /\ last.outcome = "stored"
  /\ last_analyzer_response.object.confidence = JNum(7000)
  /\ last_analyzer_response.object.value = JNum(18)
  /\ ProfileOf(user_profiles, last.phone)["age"] = 18

\* the typed value the validation of field_name has looked at
TypedValue(field_name, response) ==
  IF PROFILE_FIELDS[field_name].type = "number"
    THEN float(response.object.value).v
    ELSE lower(strip(str(response.object.value)))

Outcome(r) == [user_profiles |-> r.user_profiles,
               conversation_messages |-> r.conversation_messages,
               reply |-> r.reply]

\* the last call computed its result and then failed to write it: the profile
\* write was the one call that failed
WriteFailed ==
  /\ last # None
  /\ last.outcome \in {"create_failed", "update_failed"}
  /\ last.failed \in {{"create_user_profile"}, {"update_user_profile"}}

C17_FirstTurn ==
  [][(/\ last'.flow = "new_user"
      /\ ProfileOf(user_profiles, last'.phone) = None
      /\ "create_user_profile" \notin last'.failed) =>
       LET p == last'.phone
           inbound == [phone_number |-> p, role |-> "user",
                       content |-> Lit("incoming_text")]
           outbound == [phone_number |-> p, role |-> "assistant",
                        content |-> reply'.text]
       IN /\ last'.outcome = "welcome"
          /\ user_profiles' = user_profiles
               \cup {[user_id |-> phone_to_uuid(p), phone_number |-> p,
                       language |-> und, step |-> "new"]}
          /\ conversation_messages'[p]
               = conversation_messages[p]
                   \o (IF "log_user" \in last'.failed THEN <<>> ELSE <<inbound>>)
                   \o (IF "log_assistant" \in last'.failed THEN <<>> ELSE <<outbound>>)
          /\ reply'.text = WELCOME_MESSAGE'
          /\ faults' = 0 => reply'.text = Llm("welcome", "languages", DEFAULT_LANGUAGE)
          /\ ActiveField(user_profiles', p) = "language"]_vars

\* a user without profile has sent a first message in a run without failures
C17_Witness ==
  /\ last # None /\ last.flow = "new_user" /\ last.outcome = "welcome"
  /\ faults = 0 /\ turns = 1
  /\ ProfileOf(user_profiles, last.phone)["step"] = "new"
  /\ Len(conversation_messages[last.phone]) = 2
  /\ reply.text = Llm("welcome", "languages", DEFAULT_LANGUAGE)

\* the codes detect_language can return for the replies of the model: the
\* reply without outer blanks, in lower case, cut to two characters
DetectedCodes ==
  {SubSeq(lower(strip(r)), 1, 2) : r \in {x \in LanguageReplies : Len(strip(x)) >= 2}}
  \cup {lower(strip(r)) : r \in {x \in LanguageReplies : Len(strip(x)) < 2}}

\* C18: a message of a user whose profile holds no language.  The turn detects
\* the language and, when the write succeeds, stores it with the step
\* 'language_detected' and nothing else; the next active field is name, the
\* first of the order, and the reply is the introduction that asks for it.
C18_LanguageTurn ==
  [][(last'.flow = "language" /\ "update_user_profile" \notin last'.failed) =>
       LET p == last'.phone
           before == ProfileOf(user_profiles, p)
           after == ProfileOf(user_profiles', p)
       IN /\ before # None /\ (get(before, "language", und) = und)
          /\ last'.outcome = "stored"
          /\ after = [language |-> after["language"], step |-> "language_detected"]
                        @@ before
          /\ after["language"] # und
          /\ "detect_language" \notin last'.failed =>
               after["language"] \in (DetectedCodes \ {<<>>}) \cup {<<"e", "n">>}
          /\ \A i \in DOMAIN RegistryFields : RegistryFields[i] \notin DOMAIN after
          /\ ActiveField(user_profiles', p) = "name"
          /\ "intro_llm" \notin last'.failed =>
               reply'.text = Llm("intro", "name", after["language"])
          /\ reply'.text = get_coach_intro(after["language"], "intro_llm" \notin last'.failed)]_vars

\* the model read the message as French: 'fr' is stored and the introduction
\* in French asks for the name
C18_Witness ==
  /\ last # None /\ last.flow = "language" /\ last.outcome = "stored"
  /\ last.failed = {}
  /\ ProfileOf(user_profiles, last.phone)["language"] = <<"f", "r">>
  /\ ProfileOf(user_profiles, last.phone)["step"] = "language_detected"
  /\ reply.text = Llm("intro", "name", <<"f", "r">>)
  /\ ActiveField(user_profiles, last.phone) = "name"

\* C19: when the call that detects the language fails, the language turn goes
\* on with the code 'en': it stores 'en' (when the write succeeds), replies with
\* the introduction, and the next message is taken as the answer for name.
C19_DetectionFallback ==
  [][(/\ last'.flow = "language"
      /\ "detect_language" \in last'.failed
      /\ "update_user_profile" \notin last'.failed) =>
       /\ last'.outcome = "stored"
       /\ ProfileOf(user_profiles', last'.phone)["language"] = <<"e", "n">>
       /\ ~NeedsLanguage(ProfileOf(user_profiles', last'.phone))
       /\ ActiveField(user_profiles', last'.phone) = "name"
       /\ reply'.text = get_coach_intro(<<"e", "n">>, "intro_llm" \notin last'.failed)]_vars

\* the detection failed and the profile holds 'en'
C19_Witness ==
  /\ last # None /\ last.flow = "language" /\ last.failed = {"detect_language"}
  /\ last.outcome = "stored"
  /\ ProfileOf(user_profiles, last.phone)["language"] = <<"e", "n">>
  /\ reply.text = Llm("intro", "name", <<"e", "n">>)

\* the last call stored an answer for a field of the registry
Advanced == ExtractedField /\ last.outcome \in {"stored", "refresh_failed"}

\* C20: a message that arrives after the state has advanced past field F (a
\* second delivery of the answer for F) is taken as an answer to the field that
\* follows F in the registry, or starts the plan when none follows; whatever is
\* made of it, the value stored for F stays.
C20_DuplicateAfterAdvance ==
  [][(Advanced /\ last'.phone = last.phone) =>
       LET p == last.phone
           F == last.field
           following == CHOOSE i \in DOMAIN RegistryFields : RegistryFields[i] = F
       IN /\ F \in DOMAIN ProfileOf(user_profiles', p)
          /\ ProfileOf(user_profiles', p)[F] = ProfileOf(user_profiles, p)[F]
          /\ last'.flow \in {"field", "plan"} =>
               /\ last'.field = (RegistryFields \o <<"complete">>)[following + 1]
               /\ last'.field # F
               /\ last'.outcome = "stored" => DOMAIN last'.field_value \cap {F} = {}
               /\ (last'.flow = "field" /\ last'.outcome = "stored") =>
                    DOMAIN last'.field_value = {last'.field}]_vars

\* the answer for gender was stored in the first turn; the second message was
\* taken as an answer for height and turned down, and the gender is as stored
C20_Witness ==
  /\ turns = 2 /\ faults = 0 /\ Cardinality(user_profiles) = 1
  /\ ExtractedField /\ last.field = "height" /\ last.outcome = "clarification"
  /\ Len(conversation_messages[last.phone]) = 7
  /\ ProfileOf(user_profiles, last.phone)["gender"] = homme
  /\ "height" \notin DOMAIN ProfileOf(user_profiles, last.phone)

\* s is an initial part of t
IsPrefix(s, t) == Len(s) <= Len(t) /\ SubSeq(t, 1, Len(s)) = s

\* C21 as stated: the log is append-only and every turn creates its entries:
\* after a turn the log of each user starts with what it held before, and the
\* log of the user of the turn has gained an entry for the inbound message and
\* an entry for the reply.
C21_AppendOnlyEveryTurn ==
  [][/\ \A p \in Phones : IsPrefix(conversation_messages[p], conversation_messages'[p])
     /\ turns' = turns + 1 =>
          LET before == conversation_messages[last'.phone]
              after == conversation_messages'[last'.phone]
              added == SubSeq(after, Len(before) + 1, Len(after))
          IN /\ \E i \in DOMAIN added : added[i].role = "user"
             /\ \E i \in DOMAIN added :
                  added[i].role = "assistant" /\ added[i].content = reply'.text]_vars

\* C22: ordering.  A turn adds its entries behind everything the log of its user
\* held, the inbound message (where it is logged) before the reply, and adds
\* nothing else: no entry of another turn, nothing to the log of another user.
\* The reply is then the last entry, the one get_last_assistant_message reads.
C22_LogInProcessingOrder ==
  [][turns' = turns + 1 =>
       LET p == last'.phone
           before == conversation_messages[p]
           after == conversation_messages'[p]
           added == SubSeq(after, Len(before) + 1, Len(after))
           inbound == [phone_number |-> p, role |-> "user",
                       content |-> Lit("incoming_text")]
           outbound == [phone_number |-> p, role |-> "assistant",
                        content |-> reply'.text]
       IN /\ IsPrefix(before, after)
          /\ \A q \in Phones \ {p} : conversation_messages'[q] = conversation_messages[q]
          /\ added \in {<<>>, <<inbound>>, <<outbound>>, <<inbound, outbound>>}
          /\ (added # <<>> /\ added[Len(added)] = outbound) =>
               get_last_assistant_message(conversation_messages', p) = reply'.text]_vars

\* two turns of one user in a run without failures: the log holds the inbound
\* message and the welcome of the first turn, then the introduction of the second
C22_Witness ==
  /\ turns = 2 /\ faults = 0 /\ last.flow = "language"
  /\ Cardinality(user_profiles) = 1
  /\ Len(conversation_messages[last.phone]) = 3
  /\ conversation_messages[last.phone][1].role = "user"
  /\ conversation_messages[last.phone][2].content = Llm("welcome", "languages", DEFAULT_LANGUAGE)
  /\ conversation_messages[last.phone][3].content = reply.text
  /\ reply.text[2] = "intro"

\* the fixed sentences of the except branches of get_fallback_question,
\* get_clarification_message and generate_optional_question
Templates(field_name) ==
  {Cat(Lit("Please provide your"), Lit(field_name)),
   Cat(Lit("Could you please clarify your"), Lit(field_name)),
   Cat(Lit("Would you like to share any"), Lit(field_name))}

\* C23 as stated: when the call of the model that generates the clarification
\* or the question fails, the reply holds the fixed sentence that names the
\* field in its place.
C23_FallbackTemplate ==
  [][(ExtractedField' /\ last'.failed # {}) =>
       /\ (last'.outcome = "clarification" /\ "clarification_llm" \in last'.failed) =>
            reply'.text[2] \in Templates(last'.field)
       /\ (last'.outcome = "clarification" /\ "question_llm" \in last'.failed) =>
            reply'.text[3] \in Templates(last'.field)
       /\ (/\ last'.outcome = "stored" /\ "next_question_llm" \in last'.failed
           /\ ActiveField(user_profiles', last'.phone) # "complete") =>
            reply'.text \in Templates(ActiveField(user_profiles', last'.phone))]_vars

\* the last call put a candidate of full shape and sufficient confidence to the
\* validation of its field
Validated ==
  /\ ExtractedField /\ last.failed = {}
  /\ ~Unparseable(last_analyzer_response)
  /\ last_analyzer_response.object.confidence.t = "num"
  /\ last_analyzer_response.object.confidence.v >= 7000

\* C24: numeric validator.  A number v for a numeric field with bounds min and
\* max is stored when min <= v <= max, the bounds included, and is turned down,
\* the profile staying as it is, when v < min or v > max.
C24_NumericBounds ==
  [][(/\ Validated' /\ PROFILE_FIELDS[last'.field].type = "number"
      /\ last_analyzer_response'.object.value.t = "num") =>
       LET F == last'.field
           v == last_analyzer_response'.object.value.v
           min == PROFILE_FIELDS[F].min_value
           max == PROFILE_FIELDS[F].max_value
       IN /\ (min <= v /\ v <= max) =>
               /\ last'.outcome = "stored"
               /\ ProfileOf(user_profiles', last'.phone)[F] = v
          /\ (v < min \/ v > max) =>
               /\ last'.outcome = "clarification"
               /\ user_profiles' = user_profiles]_vars

\* a height of 250, the upper bound itself, was stored
C24_Witness ==
  /\ Validated /\ last.field = "height" /\ last.outcome = "stored"
  /\ last_analyzer_response.object.value = JNum(250)
  /\ PROFILE_FIELDS["height"].max_value = 250
  /\ ProfileOf(user_profiles, last.phone)["height"] = 250

\* the least length of a text value of field_name, 1 where none is given
MinLength(field_name) ==
  IF "min_length" \in DOMAIN PROFILE_FIELDS[field_name]
    THEN PROFILE_FIELDS[field_name].min_length ELSE 1

\* the text has at most the length the field allows, if it states one
WithinMaxLength(field_name, value) ==
  "max_length" \in DOMAIN PROFILE_FIELDS[field_name] =>
     Len(value) <= PROFILE_FIELDS[field_name].max_length

\* C25: text and enum validator.  With the candidate normalized (outer blanks
\* removed, lower case): a free text is turned down when it is empty or its
\* length is outside [min_length, max_length] (the minimum being 1 where none
\* is given) and stored otherwise; an enum candidate is stored when it equals
\* one of the allowed values and turned down otherwise.
C25_TextAndEnum ==
  [][(/\ Validated' /\ PROFILE_FIELDS[last'.field].type = "text") =>
       LET F == last'.field
           value == lower(strip(str(last_analyzer_response'.object.value)))
           accepted == IF "options" \in DOMAIN PROFILE_FIELDS[F]
                         THEN value \in PROFILE_FIELDS[F].options
                         ELSE /\ Len(value) >= MinLength(F)
                              /\ WithinMaxLength(F, value)
       IN /\ accepted =>
               /\ last'.outcome = "stored"
               /\ ProfileOf(user_profiles', last'.phone)[F] = value
          /\ ~accepted =>
               /\ last'.outcome = "clarification"
               /\ user_profiles' = user_profiles]_vars

\* "Light " was given for activity_level and stored as light
C25_Witness ==
  /\ Validated /\ last.field = "activity_level" /\ last.outcome = "stored"
  /\ last_analyzer_response.object.value = JStr(<<"L", "i", "g", "h", "t", " ">>)
  /\ ProfileOf(user_profiles, last.phone)["activity_level"] = light

(***************************************************************************)
(* The profile stores on their own                                         *)
(***************************************************************************)
\* created_at and updated_at of user_profiles default to the time of the
\* insert; the specifications of the turns leave the two columns out
Timestamped(table, now) ==
  {row @@ [created_at |-> now, updated_at |-> now] : row \in table}

\* database.py update_user_profile with its line 125, updates["updated_at"]
update_user_profile_at(table, phone_number, updates, now, ok) ==
  update_user_profile(table, phone_number, [updated_at |-> now] @@ updates, ok)

\* data/database.py update_user_profile: the row is POSTed with
\* on_conflict=user_id and no resolution preference, so that a row that is
\* already stored is a duplicate the server either rejects (the call returns
\* False) or merges with the posted columns
data_update_user_profile(table, user_id, data, now, resolution, ok) ==
  LET stamped == [updated_at |-> now] @@ data
      created == stamped @@ [created_at |-> stamped["updated_at"]]
      posted == [user_id |-> user_id] @@ created
      stored == RowsOf(table, user_id)
  IN IF ~ok THEN [ok |-> FALSE, table |-> table]
     ELSE IF stored = {} THEN [ok |-> TRUE, table |-> table \cup {posted}]
     ELSE IF resolution = "merge-duplicates"
       THEN [ok |-> TRUE,
             table |-> (table \ stored) \cup {posted @@ row : row \in stored}]
     ELSE [ok |-> FALSE, table |-> table]

\* the updates process_incoming_message makes for language, name and age
StoreUpdates ==
  {[language |-> <<"f", "r">>, step |-> "language_detected"]}
    \cup (UNION {{extract_field_value(f, TRUE, a) : a \in Answers(f)} :
                  f \in {"name", "age"}}
            \ {None})

\* one call of a store, at the time turns + 1
StoreCall(op, user_id, updates, ok, r) ==
  /\ turns < MaxTurns
  /\ ~ok => faults < MaxFaults
  /\ user_profiles' = r.table
  /\ last' = [op |-> op, user_id |-> user_id, updates |-> updates,
              io |-> ok, ok |-> r.ok]
  /\ turns' = turns + 1
  /\ faults' = faults + (IF ok THEN 0 ELSE 1)
  /\ UNCHANGED <<conversation_messages, WELCOME_MESSAGE, reply, plan_calls,
                 last_analyzer_response, tasks, sending,
                 current_state, onboarding, webhook>>

UpdateUserProfile(p) ==
  \E updates \in StoreUpdates, ok \in BOOLEAN :
    StoreCall("database.update_user_profile", phone_to_uuid(p), updates, ok,
              update_user_profile_at(user_profiles, p, updates, turns + 1, ok))

DataUpdateUserProfile(p) ==
  \E data \in StoreUpdates, ok \in BOOLEAN,
     resolution \in {"merge-duplicates", "none"} :
    StoreCall("data.database.update_user_profile", phone_to_uuid(p), data, ok,
              data_update_user_profile(user_profiles, phone_to_uuid(p), data,
                                       turns + 1, resolution, ok))

\* the rows an earlier run left behind, inserted at the time 0
StoreInit ==
  /\ \E k \in 0..Stages : \E S \in {Earlier(k)} :
       /\ user_profiles = Timestamped(S.user_profiles, 0)
       /\ conversation_messages = S.conversation_messages
  /\ WELCOME_MESSAGE = None
  /\ reply = None
  /\ last = None
  /\ plan_calls = [p \in Phones |-> 0]
  /\ last_analyzer_response = NoJson
  /\ turns = 0
  /\ faults = 0
  /\ tasks = NoTasks
  /\ sending = NotSending
  /\ current_state = NoConversation
  /\ onboarding = NoOnboarding
  /\ webhook = NoWebhook

StoreNext ==
  \E p \in Phones :
    \/ UpdateUserProfile(p)
    \/ DataUpdateUserProfile(p)

StoreSpec == StoreInit /\ [][StoreNext]_vars

\* C26: an update of a stored profile that meets no I/O failure writes the
\* fields it carries and leaves every other field of the profile (the stored
\* answers, the creation timestamp; updated_at excepted) and every other
\* profile as it was.
C26_PartialUpdate ==
  [][(last'.io /\ RowsOf(user_profiles, last'.user_id) # {}) =>
       /\ \A row \in user_profiles :
            row["user_id"] # last'.user_id => row \in user_profiles'
       /\ \A row \in RowsOf(user_profiles, last'.user_id) :
            \E after \in RowsOf(user_profiles', last'.user_id) :
              /\ \A k \in DOMAIN last'.updates :
                   k \in DOMAIN after /\ after[k] = last'.updates[k]
              /\ \A k \in DOMAIN row \ (DOMAIN last'.updates \cup {"updated_at"}) :
                   k \in DOMAIN after /\ after[k] = row[k]]_vars

\* C27: a call for one user leaves the profile and the log of every other user
\* and the state of the process (WELCOME_MESSAGE) as they were, and the reply
\* to a new user whose own turn meets no failure is the welcome message as it
\* is generated without failure, whatever the turns of other users were.
C27_NoSharedState ==
  [][/\ \A q \in Phones \ {last'.phone} :
          /\ RowsOf(user_profiles', phone_to_uuid(q))
               = RowsOf(user_profiles, phone_to_uuid(q))
          /\ conversation_messages'[q] = conversation_messages[q]
     /\ WELCOME_MESSAGE' = WELCOME_MESSAGE
     /\ (last'.outcome = "welcome" /\ last'.failed = {})
          => reply'.text = generate_welcome_message(TRUE)]_vars

InFlight(t) == tasks[t].pc \notin {"idle", "done"}

\* log the reply and return it: the end of every branch
Finish(t, text) ==
  /\ conversation_messages' =
       log_message(conversation_messages, tasks[t].phone, "assistant", text, TRUE)
  /\ reply' = [phone |-> tasks[t].phone, text |-> text]
  /\ tasks' = [tasks EXCEPT ![t].pc = "done", ![t].response = text]

\* lines 614-680: from the read of the profile to the first await of the branch
Begin(t, p, welcome, running) ==
  LET user_profile == get_user_profile(user_profiles, p, TRUE)
      rec == [running[t] EXCEPT !.phone = p, !.user_profile = user_profile]
      created == create_user_profile(user_profiles, p, TRUE)
      log1 == log_message(conversation_messages, p, "user", Lit("incoming_text"), TRUE)
      log2 == log_message(log1, p, "assistant", welcome, TRUE)
      complete == <<"complete", Lit("Profile complete")>>
  IN IF user_profile = None
       THEN /\ user_profiles' = created.table
            /\ conversation_messages' = IF created.ok THEN log2 ELSE conversation_messages
            /\ reply' = [phone |-> p,
                         text |-> IF created.ok THEN welcome
                                  ELSE get_error_message("profile_creation_failed",
                                                         DEFAULT_LANGUAGE, TRUE)]
            /\ tasks' = [running EXCEPT ![t] = [rec EXCEPT !.pc = "done",
                                                           !.response = welcome]]
     ELSE /\ UNCHANGED <<user_profiles, conversation_messages, reply>>
          /\ tasks' = [running EXCEPT ![t] =
               IF NeedsLanguage(user_profile)
                 THEN [rec EXCEPT !.pc = "detect_language"]
               ELSE IF Missing(user_profile) # <<>>
                 THEN [rec EXCEPT !.pc = "question"]
               ELSE IF NeedsPlan("complete", user_profile)
                 THEN [rec EXCEPT !.pc = "create_diet_plan", !.current = complete]
               ELSE [rec EXCEPT !.pc = "clarification", !.current = complete]]

\* a delivery for p starts a call; the calls for p that are in flight overlap it
Deliver(t, p) ==
  LET overlapping == {u \in Tasks \ {t} : InFlight(u) /\ tasks[u].phone = p}
      running == [u \in Tasks |->
                    IF u = t THEN [Idle EXCEPT !.phone = p, !.pc = "welcome",
                                               !.overlapped = overlapping # {}]
                    ELSE IF u \in overlapping THEN [tasks[u] EXCEPT !.overlapped = TRUE]
                    ELSE tasks[u]]
  IN /\ turns < MaxTurns
     /\ ~InFlight(t)
     /\ turns' = turns + 1
     /\ UNCHANGED <<WELCOME_MESSAGE, last, plan_calls, last_analyzer_response, faults, sending,
                    current_state, onboarding, webhook>>
     /\ IF WELCOME_MESSAGE = None
          THEN /\ tasks' = running
               /\ UNCHANGED <<user_profiles, conversation_messages, reply>>
          ELSE Begin(t, p, WELCOME_MESSAGE, running)

\* lines 93-97: the call that found WELCOME_MESSAGE unset assigns it
WelcomeDone(t) ==
  /\ tasks[t].pc = "welcome"
  /\ WELCOME_MESSAGE' = generate_welcome_message(TRUE)
  /\ Begin(t, tasks[t].phone, generate_welcome_message(TRUE), tasks)
  /\ UNCHANGED <<last, plan_calls, last_analyzer_response, turns, faults, sending,
                 current_state, onboarding, webhook>>

\* lines 648-664: the language is stored in the row as it is now
Detected(t) ==
  \E language_reply \in LanguageReplies :
    LET p == tasks[t].phone
        detected == detect_language(TRUE, language_reply)
        detected_lang == IF detected = <<>> THEN <<"e", "n">> ELSE detected
        updates == [language |-> detected_lang, step |-> "language_detected"]
        updated == update_user_profile(user_profiles, p, updates, TRUE)
    IN /\ tasks[t].pc = "detect_language"
       /\ user_profiles' = updated.table
       /\ tasks' = [tasks EXCEPT ![t].pc = "coach_intro", ![t].field_value = updates,
                                 ![t].response = get_coach_intro(detected_lang, TRUE)]
       /\ UNCHANGED <<conversation_messages, WELCOME_MESSAGE, reply, last, plan_calls,
                      last_analyzer_response, turns, faults, sending,
                      current_state, onboarding, webhook>>

\* lines 665-673
IntroDone(t) ==
  /\ tasks[t].pc = "coach_intro"
  /\ Finish(t, tasks[t].response)
  /\ UNCHANGED <<user_profiles, WELCOME_MESSAGE, last, plan_calls,
                 last_analyzer_response, turns, faults, sending,
                 current_state, onboarding, webhook>>

\* lines 687-706: the plan of the profile as the call read it
Planned(t) ==
  LET p == tasks[t].phone
      plan == create_diet_plan(tasks[t].user_profile, TRUE)
      updates == [step |-> "chat", plan |-> plan]
      updated == update_user_profile(user_profiles, p, updates, TRUE)
  IN /\ tasks[t].pc = "create_diet_plan"
     /\ user_profiles' = updated.table
     /\ plan_calls' = [plan_calls EXCEPT ![p] = @ + 1]
     /\ Finish(t, Cat(Lit("Great! I've created a personalized plan for you based on your profile."),
                      plan))
     /\ UNCHANGED <<WELCOME_MESSAGE, last, last_analyzer_response, turns, faults, sending,
                    current_state, onboarding, webhook>>

\* lines 680, 712-720: the question of the field that is active in the profile
\* as the call read it
Questioned(t) ==
  LET user_profile == tasks[t].user_profile
  IN /\ tasks[t].pc = "question"
     /\ tasks' = [tasks EXCEPT ![t].pc = "extract",
                               ![t].current =
                                 get_next_question(user_profile,
                                                   get(user_profile, "language", <<"e", "n">>),
                                                   TRUE)]
     /\ UNCHANGED <<user_profiles, conversation_messages, WELCOME_MESSAGE, reply, last,
                    plan_calls, last_analyzer_response, turns, faults, sending,
                    current_state, onboarding, webhook>>

\* lines 722-747: an accepted value is written to the row as it is now
Extracted(t) ==
  /\ tasks[t].pc = "extract"
  /\ \E answer \in Answers(tasks[t].current[1]) :
      LET p == tasks[t].phone
          field_value == extract_field_value(tasks[t].current[1], TRUE, answer)
          updated == update_user_profile(user_profiles, p, field_value, TRUE)
          refreshed == get_user_profile(updated.table, p, TRUE)
          following == get_next_question(refreshed, get(refreshed, "language", <<"e", "n">>),
                                         TRUE)
      IN /\ UNCHANGED <<WELCOME_MESSAGE, last, plan_calls, last_analyzer_response, turns,
                        faults, sending,
                        current_state, onboarding, webhook>>
         /\ IF field_value = None
              THEN /\ tasks' = [tasks EXCEPT ![t].pc = "clarification"]
                   /\ UNCHANGED <<user_profiles, conversation_messages, reply>>
            ELSE /\ user_profiles' = updated.table
                 /\ IF Missing(refreshed) # <<>>
                      THEN /\ tasks' = [tasks EXCEPT ![t].pc = "next_question",
                                                     ![t].field_value = field_value,
                                                     ![t].response = following[2]]
                           /\ UNCHANGED <<conversation_messages, reply>>
                      ELSE /\ conversation_messages' =
                                log_message(conversation_messages, p, "assistant",
                                            following[2], TRUE)
                           /\ reply' = [phone |-> p, text |-> following[2]]
                           /\ tasks' = [tasks EXCEPT ![t].pc = "done",
                                                     ![t].field_value = field_value,
                                                     ![t].response = following[2]]

\* lines 738-747
NextQuestionDone(t) ==
  /\ tasks[t].pc = "next_question"
  /\ Finish(t, tasks[t].response)
  /\ UNCHANGED <<user_profiles, WELCOME_MESSAGE, last, plan_calls,
                 last_analyzer_response, turns, faults, sending,
                 current_state, onboarding, webhook>>

\* lines 749-761
Clarified(t) ==
  LET user_profile == tasks[t].user_profile
      clarification ==
        get_clarification_message(tasks[t].current[1],
                                  get(user_profile, "language", DEFAULT_LANGUAGE), TRUE)
  IN /\ tasks[t].pc = "clarification"
     /\ Finish(t, clarification_response(clarification, tasks[t].current[2]))
     /\ UNCHANGED <<user_profiles, WELCOME_MESSAGE, last, plan_calls,
                    last_analyzer_response, turns, faults, sending,
                    current_state, onboarding, webhook>>

RaceNext ==
  \E t \in Tasks :
    \/ \E p \in Phones : Deliver(t, p)
    \/ WelcomeDone(t)
    \/ Detected(t)
    \/ IntroDone(t)
    \/ Planned(t)
    \/ Questioned(t)
    \/ Extracted(t)
    \/ NextQuestionDone(t)
    \/ Clarified(t)

RaceSpec == Init /\ [][RaceNext]_vars

\* the step is a write of the call t
Writes(t) ==
  /\ tasks[t].pc \in {"detect_language", "extract", "create_diet_plan"}
  /\ tasks'[t].pc # tasks[t].pc

\* C29: no step waits for another call, and a stored value is replaced only
\* by a call that overlapped another call for the same user: with one call
\* at a time per user no stored value is ever replaced.
C29_ReplacedOnlyByRace ==
  [][\A p \in Phones : \A f \in Range(RegistryFields) \cup {"language"} :
       (/\ HasValue(ProfileOf(user_profiles, p), f)
        /\ ProfileOf(user_profiles', p)[f] # ProfileOf(user_profiles, p)[f])
         => \E t \in Tasks : /\ Writes(t)
                             /\ tasks[t].phone = p
                             /\ tasks[t].overlapped
                             /\ ~HasValue(tasks[t].user_profile, f)]_vars

\* two overlapping calls for "p1" have both read age as unset and both written
\* an age; the one of t2, written last, has replaced the one of t1
C29_Witness ==
  /\ \A t \in Tasks : /\ tasks[t].phone = "p1"
                      /\ tasks[t].pc \in {"next_question", "done"}
                      /\ tasks[t].current # None /\ tasks[t].current[1] = "age"
                      /\ ~HasValue(tasks[t].user_profile, "age")
                      /\ tasks[t].field_value # None
                      /\ tasks[t].overlapped
  /\ tasks["t1"].field_value # tasks["t2"].field_value
  /\ ProfileOf(user_profiles, "p1")["age"] = tasks["t2"].field_value["age"]
(***************************************************************************)
(* services/webhook_service.py: send_message_with_retry                    *)
(***************************************************************************)
\* what the Meta API answers to one POST of whatsapp.send_message
Responses == {"200", "401 access token", "401", "500", "RequestError"}

\* max_retries of whatsapp.send_message
send_message_max_retries == 3

True == [ok |-> TRUE, http |-> FALSE, token |-> FALSE]

\* an HTTPException; token: its text holds the word 'token'
HTTPException(token) == [ok |-> FALSE, http |-> TRUE, token |-> token]

\* services/whatsapp_service.py send_message: the loop that has counted
\* retries so far reads responses[retries + 1].  It returns True or raises an
\* HTTPException; in_text says whether the text of the exception of the last
\* response holds the word 'token'.
RECURSIVE send_message(_, _, _)
send_message(responses, retries, in_text) ==
  IF retries >= send_message_max_retries
    THEN HTTPException(FALSE)             \* "Failed to send message after 3 retries"
  ELSE IF responses[retries + 1] = "200" THEN True
  ELSE IF responses[retries + 1] = "401 access token"
    THEN send_message(responses, retries + 1, in_text)
  ELSE IF retries < send_message_max_retries - 1
    THEN send_message(responses, retries + 1, in_text)
  ELSE HTTPException(in_text)

\* send_message_with_retry that gives up when the token is refused
on_failure_giveup(e, attempt, max_retries) ==
  IF e.http
    THEN IF e.token THEN "return False"
         ELSE IF attempt < max_retries - 1 THEN "continue"
         ELSE "return False"
  ELSE IF attempt < max_retries - 1 THEN "continue" ELSE "return False"

\* lines 185-203: what the loop does with the exception e of the call attempt
on_failure(e, attempt, max_retries) ==
  IF e.http
    THEN IF e.token /\ attempt < max_retries - 1 THEN "refresh_token"
         ELSE IF attempt < max_retries - 1 THEN "continue"
         ELSE "return False"
  ELSE IF attempt < max_retries - 1 THEN "continue" ELSE "return False"

\* line 180: for attempt in range(max_retries)
StartSending ==
  \E max_retries \in 0..MaxRetries :
    /\ sending.pc = "idle"
    /\ sending' = [NotSending EXCEPT !.max_retries = max_retries,
                                     !.pc = IF max_retries = 0 THEN "returned" ELSE "send",
                                     !.result = IF max_retries = 0 THEN FALSE ELSE None]
    /\ UNCHANGED <<user_profiles, conversation_messages, WELCOME_MESSAGE, reply, last,
                   plan_calls, last_analyzer_response, turns, faults, tasks,
                   current_state, onboarding, webhook>>

\* lines 182-203: one call of whatsapp.send_message
SendMessage ==
  \E responses \in [1..send_message_max_retries -> Responses], in_text \in BOOLEAN :
    \E e \in {send_message(responses, 0, in_text)} :
      /\ sending.pc = "send"
      /\ sending' =
           IF e.ok
             THEN [sending EXCEPT !.calls = @ + 1, !.pc = "returned", !.result = TRUE]
           ELSE IF on_failure(e, sending.attempt, sending.max_retries) = "refresh_token"
             THEN [sending EXCEPT !.calls = @ + 1, !.failed = @ + 1, !.pc = "refresh_token"]
           ELSE IF on_failure(e, sending.attempt, sending.max_retries) = "continue"
             THEN [sending EXCEPT !.calls = @ + 1, !.failed = @ + 1, !.attempt = @ + 1]
           ELSE [sending EXCEPT !.calls = @ + 1, !.failed = @ + 1, !.pc = "returned",
                                !.result = FALSE]
      /\ UNCHANGED <<user_profiles, conversation_messages, WELCOME_MESSAGE, reply, last,
                     plan_calls, last_analyzer_response, turns, faults, tasks,
                     current_state, onboarding, webhook>>

\* lines 188-192: whatsapp.refresh_token() is called without the new_token
\* that refresh_token(self, new_token) requires: the call raises, the error is
\* logged and the loop goes on with the next attempt
RefreshToken ==
  /\ sending.pc = "refresh_token"
  /\ sending' = [sending EXCEPT !.refreshes = @ + 1, !.attempt = @ + 1, !.pc = "send"]
  /\ UNCHANGED <<user_profiles, conversation_messages, WELCOME_MESSAGE, reply, last,
                 plan_calls, last_analyzer_response, turns, faults, tasks,
                 current_state, onboarding, webhook>>

SendNext == StartSending \/ SendMessage \/ RefreshToken

SendSpec == Init /\ [][SendNext]_vars

\* C30: send_message_with_retry calls whatsapp.send_message at most
\* max_retries times, makes no call after one that succeeded, returns True
\* when a call succeeded, and returns False exactly when max_retries calls
\* were made and all of them failed, a failed refresh of the token included;
\* until it returns there is a next step.
C30_SendWithRetry ==
  /\ sending.calls <= sending.max_retries
  /\ sending.attempt < sending.max_retries \/ sending.pc \in {"idle", "returned"}
  /\ sending.calls > sending.failed =>
       /\ sending.pc = "returned" /\ sending.result = TRUE
       /\ sending.calls = sending.failed + 1
  /\ sending.pc = "returned" =>
       /\ sending.result \in BOOLEAN
       /\ sending.result = TRUE <=> sending.calls = sending.failed + 1
       /\ sending.result = FALSE <=> /\ sending.calls = sending.max_retries
                                     /\ sending.failed = sending.max_retries
  /\ sending.pc \in {"send", "refresh_token"} =>
       /\ sending.calls = sending.failed
       /\ sending.failed < sending.max_retries
       /\ ENABLED SendNext

\* three calls failed, the refresh of the token failed after two of them, and
\* the call returned False
C30_Witness ==
  /\ sending.pc = "returned" /\ sending.result = FALSE
  /\ sending.max_retries = 3 /\ sending.calls = 3
  /\ sending.refreshes = 2

(***************************************************************************)
(* The chat step                                                           *)
(***************************************************************************)
\* the profile of p has reached the step 'chat'
InChat(table, p) ==
  /\ ProfileOf(table, p) # None
  /\ get(ProfileOf(table, p), "step", "none") = "chat"

\* C34: once the step of a profile is 'chat', a turn changes no field of it
\* and not its step; a turn of that user writes nothing for the pseudo-field
\* 'complete', never asks the analyzer to extract it, generates no plan, and
\* returns a text.
C34_ChatIsFrozen ==
  [][\A p \in Phones :
       InChat(user_profiles, p) =>
         /\ ProfileOf(user_profiles', p) = ProfileOf(user_profiles, p)
         /\ last'.phone = p =>
              /\ IsText(reply'.text)
              /\ last'.outcome \notin {"stored", "update_failed", "refresh_failed"}
              /\ "extract_llm" \notin DOMAIN last'.attempts
              /\ "update_user_profile" \notin DOMAIN last'.attempts
              /\ plan_calls'[p] = plan_calls[p]]_vars

\* a turn of a user in chat that went to the field branch with 'complete' and
\* ended in the clarification
C34_Witness ==
  /\ last # None /\ last.flow = "field" /\ last.field = "complete"
  /\ last.outcome = "clarification"
  /\ InChat(user_profiles, last.phone)
  /\ reply.text = Cat(Llm("clarification", "complete", get(ProfileOf(user_profiles, last.phone), "language", DEFAULT_LANGUAGE)),
                      Lit("Profile complete"))

(***************************************************************************)
(* The optional fields and the plan                                        *)
(***************************************************************************)
OptionalFields == {"dietary_restrictions", "health_conditions"}

StoredLastField(p) ==
  /\ last'.phone = p
  /\ ActiveField(user_profiles, p) \notin {None, "language", "complete"}
  /\ ActiveField(user_profiles', p) = "complete"

StepRank(step) ==
  CASE step = "new" -> 0
    [] step = "language_detected" -> 1
    [] step = "chat" -> 2
    [] OTHER -> -1

\* C38: the step of a stored profile is 'new', 'language_detected' or 'chat',
\* a profile once stored stays stored, and no turn moves its step backwards
\* in that order.
C38_StepForward ==
  [][\A p \in Phones :
       LET before == ProfileOf(user_profiles, p)
           after == ProfileOf(user_profiles', p)
       IN /\ after # None =>
               /\ "step" \in DOMAIN after
               /\ after["step"] \in {"new", "language_detected", "chat"}
          /\ before # None =>
               /\ before["step"] \in {"new", "language_detected", "chat"}
               /\ after # None
               /\ StepRank(after["step"]) >= StepRank(before["step"])]_vars

\* a profile created in this run went from 'new' to 'language_detected'
C38_Witness ==
  /\ last # None /\ last.flow = "language" /\ last.outcome = "stored"
  /\ ProfileOf(user_profiles, last.phone)["step"] = "language_detected"
  /\ turns = 2
  /\ last.phone = "p2"

(***************************************************************************)
(* A failed read of an existing profile                                    *)
(***************************************************************************)
\* the turn that has just ended was p's, p had a profile, and the read of the
\* profile at the start of the turn failed
FailedReadOfExisting(p) ==
  /\ last'.phone = p
  /\ ProfileOf(user_profiles, p) # None
  /\ "get_user_profile" \in last'.failed

\* C39: a turn whose profile read fails for a user with a profile takes the
\* new-user branch and attempts the create; the table of profiles is left as
\* it was (the fields and the step of the profile included) and holds one row
\* for the user.
C39_FailedReadIsNewUser ==
  [][\A p \in Phones :
       FailedReadOfExisting(p) =>
         /\ last'.flow = "new_user"
         /\ "create_user_profile" \in DOMAIN last'.attempts
         /\ user_profiles' = user_profiles
         /\ Cardinality({row \in user_profiles' : row["phone_number"] = p}) = 1]_vars

\* the read failed for a user whose onboarding had stored a name; the create
\* was attempted and failed
C39_Witness ==
  /\ last # None /\ last.flow = "new_user" /\ last.outcome = "create_failed"
  /\ "get_user_profile" \in last.failed
  /\ HasValue(ProfileOf(user_profiles, last.phone), "name")
  /\ IsErrorReply(reply.text)

(***************************************************************************)
(* The last question given to the extractor                                *)
(***************************************************************************)
\* the turn that has just ended was p's and ran the extraction for p's active
\* field; the log it read is the one of the state before, since nothing is
\* logged in the field branch before the extraction (lines 712-722)
ExtractionRan(p) ==
  /\ last'.phone = p
  /\ last'.flow = "field"
  /\ "extract_llm" \in DOMAIN last'.attempts

\* the turn recorded in trace logged its reply
LoggedReply(trace) ==
  /\ trace.outcome \in {"welcome", "stored", "clarification"}
  /\ "log_assistant" \notin trace.failed

FlowInit ==
  /\ \E state \in Range(ConversationState) :
       current_state = [NoConversation EXCEPT !.state = state, !.visited = {state}]
  /\ user_profiles = {}
  /\ conversation_messages = [p \in Phones |-> <<>>]
  /\ WELCOME_MESSAGE = None
  /\ reply = None
  /\ last = None
  /\ plan_calls = [p \in Phones |-> 0]
  /\ last_analyzer_response = NoJson
  /\ turns = 0
  /\ faults = 0
  /\ tasks = NoTasks
  /\ sending = NotSending
  /\ onboarding = NoOnboarding
  /\ webhook = NoWebhook

FlowNext == \E message \in Messages : DetermineNextState(message)

\* the conversations of FlowManager, begun in any state
FlowSpec == FlowInit /\ [][FlowNext]_vars

\* C40: whenever determine_next_state returns no error message, the state it
\* returns is next_state() of the current state, and a conversation that has
\* reached free_chat from the introduction has been in every state of the
\* enum.
C40_AgreesWithNextState ==
  [][/\ current_state'.error = None =>
          current_state'.state = next_state(current_state.state)
     /\ ("introduction" \in current_state'.visited /\ current_state'.state = "free_chat")
          => current_state'.visited = Range(ConversationState)]_vars

(***************************************************************************)
(* DietAgent.handle_onboarding                                             *)
(***************************************************************************)
\* the rows handle_onboarding may be given: the onboarding state, a language,
\* the first k required fields stored, and fields_to_ask either unset or the
\* list of the other required fields
OnboardingProfiles ==
  { [conversation_state |-> "onboarding", language |-> language]
      @@ [f \in {required_fields[i] : i \in 1..k} |-> "value"]
      @@ (IF listed
            THEN [fields_to_ask |-> SubSeq(required_fields, k + 1, Len(required_fields))]
            ELSE << >>) :
    language \in {<<"e", "n">>, <<"f", "r">>},
    k \in 0..Len(required_fields),
    listed \in BOOLEAN }

OnboardingInit ==
  /\ \E profile \in OnboardingProfiles :
       onboarding = [NoOnboarding EXCEPT !.profile = profile]
  /\ user_profiles = {}
  /\ conversation_messages = [p \in Phones |-> <<>>]
  /\ WELCOME_MESSAGE = None
  /\ reply = None
  /\ last = None
  /\ plan_calls = [p \in Phones |-> 0]
  /\ last_analyzer_response = NoJson
  /\ turns = 0
  /\ faults = 0
  /\ tasks = NoTasks
  /\ sending = NotSending
  /\ current_state = NoConversation
  /\ webhook = NoWebhook

OnboardingNext ==
  \E validation \in Validations, F \in SUBSET {"question", "summary", "error"} :
    HandleOnboarding(validation, F)

OnboardingSpec == OnboardingInit /\ [][OnboardingNext]_vars

\* the list of fields the next call of handle_onboarding works on
FieldsToAsk(profile) == initialize_fields_to_ask(profile).fields_to_ask

\* C32: the field a call of handle_onboarding answers is the head of
\* fields_to_ask; when storing the answer fails, fields_to_ask is unchanged and
\* the reply is the question for the same field with the retry flag; when
\* storing succeeds, the field is removed from fields_to_ask and the reply is
\* the question for the new head (the summary when no field is left).  Stated
\* for the calls in which no generation call fails.
C32_HeadOfFieldsToAsk ==
  [][(onboarding'.field # "none" /\ onboarding'.failed = {}) =>
       LET before == FieldsToAsk(onboarding.profile)
           after == FieldsToAsk(onboarding'.profile)
           language == onboarding.profile["language"]
       IN /\ onboarding'.field = Head(before)
          /\ ~onboarding'.stored =>
               /\ after = before
               /\ onboarding'.reply = Llm("retry question", Head(before), language)
          /\ onboarding'.stored =>
               /\ after = Tail(before)
               /\ onboarding'.reply =
                    IF after = <<>> THEN Llm("summary", "none", language)
                    ELSE Llm("question", Head(after), language)]_vars

\* the calls of the last handle_onboarding that write the chat state
ChatUpdates(calls) ==
  {i \in DOMAIN calls : "conversation_state" \in DOMAIN calls[i].data}

max_retries_default == 3

\* lines 20-35 (the text shortened)
WEBHOOK_WELCOME_MESSAGE == Lit("Hello! I'm Eric, your personal diet coach.")

\* lines 170-204 as a function of what the calls of whatsapp.send_message do:
\* calls[attempt + 1] is True or the exception of the call number attempt
RECURSIVE send_message_with_retry(_, _, _)
send_message_with_retry(calls, attempt, max_retries) ==
  IF attempt >= max_retries THEN FALSE                                \* line 204
  ELSE IF calls[attempt + 1].ok THEN TRUE
  ELSE IF on_failure(calls[attempt + 1], attempt, max_retries) = "return False" THEN FALSE
  ELSE send_message_with_retry(calls, attempt + 1, max_retries)

\* what the calls of whatsapp.send_message of one send_message_with_retry do
SendCalls == [1..max_retries_default -> {True, HTTPException(TRUE), HTTPException(FALSE)}]

\* lines 140-168: db.store_message is no attribute of data.database.Database,
\* the AttributeError is caught at line 167 and the history is left as it was
store_conversation_message(history, user_id, role, content) == history

\* a call store_conversation_message(user_id, role, content)
StoreMessage(user_id, role, content) ==
  [user_id |-> user_id, role |-> role, content |-> content]

\* lines 383-427: the message of the key in the language, in English when the
\* language has none
get_localized_message(key, language) ==
  <<"localized", key,
    IF language \in {<<"e", "n">>, <<"f", "r">>} THEN language ELSE <<"e", "n">>>>

\* one send_message_with_retry(phone_number, message) and its result
Send(phone_number, message, calls) ==
  [phone |-> phone_number, message |-> message,
   delivered |-> send_message_with_retry(calls, 0, max_retries_default)]

\* handle_new_user that stores the welcome message before it sends it
handle_new_user_stores(phone_number, calls) ==
  LET user_id == phone_to_uuid(phone_number)
      success == db_update_user_profile([phone_number |-> phone_number])
      send == Send(phone_number, WEBHOOK_WELCOME_MESSAGE, calls)
      store == StoreMessage(user_id, "assistant", WEBHOOK_WELCOME_MESSAGE)
  IN IF ~send.delivered
       THEN [status |-> "partial_success", sends |-> <<send>>, stores |-> <<store>>,
             response |-> None]
       ELSE [status |-> "success", sends |-> <<send>>, stores |-> <<store>>,
             response |-> None]

\* lines 206-265.  success is the coroutine object of the call of line 213,
\* which is not awaited: it is truthy and line 237 is not reached.
handle_new_user(phone_number, calls) ==
  LET user_id == phone_to_uuid(phone_number)
      success == db_update_user_profile([phone_number |-> phone_number])
      send == Send(phone_number, WEBHOOK_WELCOME_MESSAGE, calls)
      store == StoreMessage(user_id, "assistant", WEBHOOK_WELCOME_MESSAGE)
  IN IF ~send.delivered
       THEN [status |-> "partial_success", sends |-> <<send>>, stores |-> <<>>,
             response |-> None]
       ELSE [status |-> "success", sends |-> <<send>>, stores |-> <<store>>,
             response |-> None]

\* lines 429-467; lang_code is what detect_language_preference returns
handle_language_selection(user_id, phone_number, lang_code, calls) ==
  LET success == db_update_user_profile([language |-> lang_code,
                                         conversation_state |-> "onboarding"])
      response == Cat(get_localized_message("language_confirmed", lang_code),
                      get_localized_message("ask_name", lang_code))
      send == Send(phone_number, response, calls)
  IN IF send.delivered
       THEN [status |-> "success", sends |-> <<send>>,
             stores |-> <<StoreMessage(user_id, "assistant", response)>>,
             response |-> response]
       ELSE [status |-> "success", sends |-> <<send>>, stores |-> <<>>,
             response |-> None]

\* DietAgent.process_message (services/diet_agent.py lines 29-47): profile is
\* the coroutine object of line 33, profile.get raises AttributeError at line
\* 39 and again in the handler, at line 47: the call raises
process_message_raises == db_get_user_profile(None) = Coroutine

\* lines 356-377: the error message is sent, and stored when it was sent
on_error(user_id, phone_number, language, error_ok, calls, before) ==
  LET error_message == agent_get_error_message(language, error_ok)
      send == Send(phone_number, error_message, calls)
  IN [status |-> "error", sends |-> before.sends \o <<send>>,
      stores |-> before.stores \o
                 (IF send.delivered
                    THEN <<StoreMessage(user_id, "assistant", error_message)>> ELSE <<>>),
      response |-> None]

\* lines 267-381 for a text message.  row is the stored row of the user or
\* None; user_profile is what line 311 binds.
handle_webhook(row, phone_number, text, lang_code, error_ok, calls, calls2) ==
  LET user_id == phone_to_uuid(phone_number)
      user_profile == db_get_user_profile(row)
      user_message == StoreMessage(user_id, "user", text)
      selection == handle_language_selection(user_id, phone_number, lang_code, calls)
      stored == [sends |-> <<>>, stores |-> <<user_message>>]
  IN IF user_profile = None
       THEN handle_new_user(phone_number, calls)
     ELSE IF user_profile = Coroutine
       \* line 330 raises AttributeError; so does line 360 in the handler of
       \* line 356; the handler of line 379 returns the status
       THEN [status |-> "error", sends |-> <<>>, stores |-> <<user_message>>,
             response |-> None]
     ELSE IF get(user_profile, "conversation_state", "language_selection")
               = "language_selection"
       THEN IF selection.response = None
              THEN on_error(user_id, phone_number, get(user_profile, "language", <<"e", "n">>),
                            error_ok, calls2,
                            [sends |-> selection.sends,
                             stores |-> <<user_message>> \o selection.stores])
              ELSE [selection EXCEPT !.stores = <<user_message>> \o @]
     ELSE IF process_message_raises
       THEN on_error(user_id, phone_number, get(user_profile, "language", <<"e", "n">>),
                     error_ok, calls, stored)
     ELSE [status |-> "success", sends |-> <<>>, stores |-> <<user_message>>,
           response |-> None]

\* the history after the calls stores of store_conversation_message
RECURSIVE HistoryAfter(_, _)
HistoryAfter(history, stores) ==
  IF stores = <<>> THEN history
  ELSE HistoryAfter(store_conversation_message(history, Head(stores).user_id,
                                               Head(stores).role, Head(stores).content),
                    Tail(stores))

\* the state after a handler: what it sent, the calls of
\* store_conversation_message it made, and the history they leave
Handled(handler, phone_number, result) ==
  \E r \in {result} :
    /\ webhook' =
         [handler |-> handler, phone |-> phone_number, status |-> r.status,
          sends |-> r.sends, stores |-> r.stores,
          history |-> HistoryAfter(webhook.history, r.stores),
          delivered |-> webhook.delivered
                          \cup {<<r.sends[i].phone, r.sends[i].message>> :
                                  i \in {j \in DOMAIN r.sends : r.sends[j].delivered}},
          handled |-> webhook.handled + 1]
    /\ UNCHANGED <<user_profiles, conversation_messages, WELCOME_MESSAGE, reply, last,
                   plan_calls, last_analyzer_response, turns, faults, tasks, sending,
                   current_state, onboarding>>

HandleNewUser(phone_number) ==
  /\ webhook.handled < MaxTurns
  /\ \E calls \in SendCalls :
       Handled("handle_new_user", phone_number, handle_new_user(phone_number, calls))

HandleLanguageSelection(phone_number) ==
  /\ webhook.handled < MaxTurns
  /\ \E calls \in SendCalls, lang_code \in {<<"e", "n">>, <<"f", "r">>, <<"x", "x">>} :
       Handled("handle_language_selection", phone_number,
               handle_language_selection(phone_to_uuid(phone_number), phone_number,
                                         lang_code, calls))

HandleWebhook(phone_number) ==
  /\ webhook.handled < MaxTurns
  /\ \E calls \in SendCalls, text \in {<<"h", "i">>, <<"f", "r">>} :
       Handled("handle_webhook", phone_number,
               handle_webhook(None, phone_number, text, <<"e", "n">>, TRUE, calls, calls))

WebhookNext ==
  \E phone_number \in Phones :
    \/ HandleNewUser(phone_number)
    \/ HandleLanguageSelection(phone_number)
    \/ HandleWebhook(phone_number)

WebhookInit ==
  /\ webhook = NoWebhook
  /\ user_profiles = {}
  /\ conversation_messages = [p \in Phones |-> <<>>]
  /\ WELCOME_MESSAGE = None
  /\ reply = None
  /\ last = None
  /\ plan_calls = [p \in Phones |-> 0]
  /\ last_analyzer_response = NoJson
  /\ turns = 0
  /\ faults = 0
  /\ tasks = NoTasks
  /\ sending = NotSending
  /\ current_state = NoConversation
  /\ onboarding = NoOnboarding

WebhookSpec == WebhookInit /\ [][WebhookNext]_vars

\* C31: every call store_conversation_message makes for an assistant message
\* follows, in the same handler, a send_message_with_retry of that message to
\* that user that returned True, and every assistant message in the history was
\* delivered: a message whose send failed on all attempts is not stored.
C31_StoredOnlyIfSent ==
  /\ \A i \in DOMAIN webhook.stores :
       webhook.stores[i].role = "assistant" =>
         \E j \in DOMAIN webhook.sends :
           /\ webhook.sends[j].delivered
           /\ webhook.sends[j].message = webhook.stores[i].content
           /\ phone_to_uuid(webhook.sends[j].phone) = webhook.stores[i].user_id
  /\ \A i \in DOMAIN webhook.history :
       webhook.history[i].role = "assistant" =>
         \E d \in webhook.delivered :
           /\ phone_to_uuid(d[1]) = webhook.history[i].user_id
           /\ d[2] = webhook.history[i].content

\* the welcome message could not be sent in three attempts and no call to
\* store it was made
C31_Witness ==
  /\ webhook.handler = "handle_new_user"
  /\ webhook.status = "partial_success"
  /\ Len(webhook.sends) = 1 /\ ~webhook.sends[1].delivered
  /\ webhook.sends[1].message = WEBHOOK_WELCOME_MESSAGE
  /\ webhook.stores = <<>>
  /\ webhook.history = <<>>

====
